---------------------------- MODULE Spec2Model ----------------------------
(***************************************************************************)
(* Employee daily work-update bot: the daily-submission ledger, the admin  *)
(* re-submission allowance, the roster, the approval callbacks (allow,     *)
(* edit, leave), the leave ledger with its monthly deduction, and the      *)
(* lateness classifier.                                                    *)
(*                                                                         *)
(* Handlers are dispatched one at a time (a single event loop; the         *)
(* application is built without concurrent updates), so a handler that is  *)
(* not suspended is one action; handle_message, which awaits I/O between   *)
(* its duplicate check and its ledger insert, is a chain of steps guarded  *)
(* by pc, and no other event is dispatched until it is back to "idle".     *)
(*                                                                         *)
(* Text is modelled by what the code does with it: identifiers, names and  *)
(* departments are sequences of characters and str.upper() maps each       *)
(* character; a DD-MM-YYYY token keeps whether it was zero-padded, and     *)
(* strptime/strftime normalise it.                                         *)
(***************************************************************************)
EXTENDS Integers, Sequences, FiniteSets, TLC

VARIABLES
    STAFF_RECORDS,    \* config.STAFF_RECORDS: emp id -> [name, dept] (memory)
    staff_file,       \* staff.json: [exists, data]
    HR_CHAT_ID,       \* config.HR_CHAT_ID (memory)
    settings_file,    \* bot_settings.json: [deadline, hr_chat_id], <<>> and "" when unset
    daily_log,        \* context.bot_data["daily_log"]: [loaded, log]
    daily_log_file,   \* daily_log.json: date -> emp id -> entry
    leave_log_file,   \* leave_log.json: date key -> emp id -> [approved_by, reason]
    pending_edits,    \* context.bot_data["pending_edits"]: emp id -> new text
    pending_leaves,   \* context.bot_data["pending_leaves"]: <<emp id, date token>> -> reason
    allow_usage,      \* Allow-Usage Counter: <<date, emp id>> -> count
    prompts,          \* approval prompts that still show their buttons
    today,            \* the calendar date of the clock (an ordinal day)
    pc,               \* position of the handle_message in progress, or "idle";
                      \* "starting" before main has run, "halted" when it gave up
    cur,              \* locals of the handle_message in progress
    ev,               \* the event handled last (or being handled)
    result,           \* its outcome
    effects,          \* the I/O steps it attempted, in order: <<step, ok>>
    shown,            \* what a leave approval showed and wrote
    accepted,         \* history: accepted submissions of the <<date, emp id>> it tracks
    other,            \* a second handle_message, were updates dispatched concurrently
    report,           \* the list the last /absent or /late replied with
    sheets            \* column A of the update sheets: [excel, remote, monthly]

vars == <<STAFF_RECORDS, staff_file, HR_CHAT_ID, settings_file, daily_log,
          daily_log_file, leave_log_file, pending_edits, pending_leaves,
          allow_usage, prompts, today, pc, cur, ev, result, effects, shown,
          accepted, other,
                   report, sheets>>

---------------------------------------------------------------------------
(* Bounds of the model *)

MaxDay == 2             \* the clock runs over the days 1..MaxDay
MaxAccepted == 3        \* accepted submissions counted per (date, employee)
MonthLen == 5           \* days in a month of the model's calendar
MaxOpen == 1            \* a leave request is sent while fewer leave prompts are open

EmptyMap == [x \in {} |-> TRUE]

---------------------------------------------------------------------------
(* Text *)

\* str.upper() on one character
UpperChar(c) ==
    CASE c = "d" -> "D"
      [] c = "m" -> "M"
      [] c = "h" -> "H"
      [] c = "u" -> "U"
      [] c = "i" -> "I"
      [] c = "t" -> "T"
      [] c = "a" -> "A"
      [] c = "n" -> "N"
      [] OTHER -> c

\* str.upper()
Upper(s) == [i \in 1..Len(s) |-> UpperChar(s[i])]

---------------------------------------------------------------------------
(* Configuration *)

\* Telegram identities: the primary owner, a second configured owner, the HR
\* contact of the environment, and a user with no role.
OWNER_CHAT_IDS == <<"o1", "o2">>
OWNER_CHAT_ID == OWNER_CHAT_IDS[1]
EnvHR == "h"
Users == {"o1", "o2", "h", "x"}

\* employee identifiers as typed (any letter case) and as stored
D1 == <<"D", "1">>
d1 == <<"d", "1">>
M1 == <<"M", "1">>
m1 == <<"m", "1">>
Hi == <<"H", "i">>

\* load_staff_records() without a staff.json (two of the built-in entries)
DefaultStaff ==
    (D1 :> [name |-> <<"S", "u">>, dept |-> <<"D", "E", "V">>]) @@
    (M1 :> [name |-> <<"B", "i">>, dept |-> <<"M", "K", "T">>])

is_owner(user_id) == \E i \in DOMAIN OWNER_CHAT_IDS : OWNER_CHAT_IDS[i] = user_id

is_admin_anyone(user_id) == TRUE

is_admin(user_id) == is_owner(user_id) \/ user_id = HR_CHAT_ID

OwnerOrHRAnyone(user_id) == TRUE

\* the inline role check of bot.py and callbacks.py:
\* user_id in [str(config.OWNER_CHAT_ID), str(config.HR_CHAT_ID)]
OwnerOrHR(user_id) == user_id = OWNER_CHAT_ID \/ user_id = HR_CHAT_ID

---------------------------------------------------------------------------
(* Dictionaries and files *)

Put(f, k, v) == [x \in DOMAIN f \cup {k} |-> IF x = k THEN v ELSE f[x]]

Del(f, k) == [x \in DOMAIN f \ {k} |-> f[x]]

Get(f, k, default) == IF k \in DOMAIN f THEN f[k] ELSE default

load_staff_records(file) == IF file.exists THEN file.data ELSE DefaultStaff

save_staff_record_raw(file, emp_id, name, dept) ==
    [exists |-> TRUE,
     data |-> Put(load_staff_records(file), emp_id,
                  [name |-> name, dept |-> dept])]

\* the staff.json written by save_staff_record
save_staff_record(file, emp_id, name, dept) ==
    [exists |-> TRUE,
     data |-> Put(load_staff_records(file), Upper(emp_id),
                  [name |-> name, dept |-> Upper(dept)])]

\* the staff.json written by remove_staff_record (emp_id is in the records)
remove_staff_record(file, emp_id) ==
    [exists |-> TRUE, data |-> Del(load_staff_records(file), Upper(emp_id))]

\* if "daily_log" not in context.bot_data: ... = config.load_daily_log()
Hydrate(mem, file) == IF mem.loaded THEN mem.log ELSE file

NotLoaded == [loaded |-> FALSE, log |-> EmptyMap]

Loaded(log) == [loaded |-> TRUE, log |-> log]

HasDay(log, day, emp_id) == day \in DOMAIN log

\* today_str in daily_log and emp_id in daily_log[today_str]
HasEntry(log, day, emp_id) == day \in DOMAIN log /\ emp_id \in DOMAIN log[day]

\* del daily_log[today_str][emp_id]
DelEntry(log, day, emp_id) == Put(log, day, Del(log[day], emp_id))

---------------------------------------------------------------------------
(* Events *)

NoArgs == <<>>

Event(type, user, args, hour, minute) ==
    [type |-> type, user |-> user, args |-> args, hour |-> hour,
     minute |-> minute]

NoCur == [emp_id |-> <<>>, today_str |-> 0]

\* no report was asked for yet
\* a sheet that does not exist yet
NoSheet == [exists |-> FALSE, rows |-> <<>>]

\* the workbook of config.EXCEL_FILE as bot.save_to_excel keeps it, the first
\* sheet of the Google spreadsheet, and a monthly worksheet of it
NoSheets == [excel |-> NoSheet, remote |-> NoSheet, monthly |-> NoSheet]

NoReport == [kind |-> "none", listed |-> {}]

\* the second handler slot: its position, the message it handles or handled
\* last, and that message's outcome
NoOther == [pc |-> "idle", emp_id |-> <<>>, today_str |-> 0, result |-> "none"]

concurrent_updates_enabled == TRUE

\* ApplicationBuilder().token(config.BOT_TOKEN).build(): concurrent_updates is
\* left at its default, so an update is dispatched when the handler of the
\* one before it has returned
concurrent_updates == FALSE

NoDeduction == [extra |-> FALSE, amount |-> 0]

\* nothing was sent to the originating chat
NoGroupMessage ==
    [emp_id |-> <<>>, staff_name |-> <<>>,
     leave_date |-> [day |-> 0, month |-> 0, padded |-> TRUE],
     admin_name |-> "", deduction |-> NoDeduction]

NoShown == [count |-> 0, admin |-> NoDeduction, register |-> NoDeduction,
            wrote |-> FALSE, group |-> NoGroupMessage]

\* a ledger entry without a submission time
NoTime == [I |-> 0, M |-> 0, p |-> ""]

\* the value True that handle_message stores as a ledger entry
PyTrue == [dict |-> FALSE, time |-> NoTime, late |-> FALSE]

\* a ledger entry that is a dict: {"time": "%I:%M %p", "late": bool}, the form
\* the reports read a time and a lateness flag from
DictEntry(time, late) == [dict |-> TRUE, time |-> time, late |-> late]

Count(key) == Get(accepted, key, 0)

\* state left alone by every handler of the submission ledger
LedgerFrame ==
    UNCHANGED <<HR_CHAT_ID, settings_file, leave_log_file, pending_edits,
                pending_leaves, allow_usage, prompts, today, shown, other,
                   report, sheets>>

---------------------------------------------------------------------------
(* Time of day, the deadline and the lateness classifier *)

\* int() of a string of decimal digits
RECURSIVE ParseInt(_)
ParseInt(digits) ==
    IF digits = <<>> THEN 0
    ELSE 10 * ParseInt(SubSeq(digits, 1, Len(digits) - 1)) + digits[Len(digits)]

TwoDigits(n) == <<n \div 10, n % 10>>

\* the text "HH:MM" split at ":", each part a string of digits
DeadlineText(h, m) == <<TwoDigits(h), TwoDigits(m)>>

\* SUBMISSION_DEADLINE = os.getenv("SUBMISSION_DEADLINE", "11:00")
SUBMISSION_DEADLINE == DeadlineText(11, 0)

NoSettings == [deadline |-> <<>>, hr_chat_id |-> ""]

get_deadline_default == SUBMISSION_DEADLINE

\* get_setting("deadline", SUBMISSION_DEADLINE)
get_deadline ==
    IF settings_file.deadline = <<>> THEN SUBMISSION_DEADLINE
    ELSE settings_file.deadline

\* now.strftime("%I:%M %p"): 12-hour clock, 00:30 is "12:30 AM"
strftime_IMp(hour, minute) ==
    [I |-> IF hour % 12 = 0 THEN 12 ELSE hour % 12,
     M |-> minute,
     p |-> IF hour < 12 THEN "AM" ELSE "PM"]

\* datetime.strptime(time_str, "%I:%M %p")
strptime_IMp(time_str) ==
    [hour |-> (time_str.I % 12) + (IF time_str.p = "PM" THEN 12 ELSE 0),
     minute |-> time_str.M]

\* deadline_h, deadline_m = map(int, deadline.split(":")) does not raise: the
\* text has exactly two parts and each is a non-empty string of digits
IntPairParses(deadline) ==
    /\ Len(deadline) = 2
    /\ deadline[1] # <<>> /\ deadline[2] # <<>>

is_on_time_strict(time_str) ==
    LET deadline_h == ParseInt(get_deadline[1])
        deadline_m == ParseInt(get_deadline[2])
        sub_time == strptime_IMp(time_str)
    IN \/ sub_time.hour < deadline_h
       \/ sub_time.hour = deadline_h /\ sub_time.minute < deadline_m

\* _is_on_time: sub_time <= sub_time.replace(hour=deadline_h, minute=deadline_m);
\* map(int, ...) raises on a text that is not two numbers, replace() raises on
\* an hour or minute out of range, and the except returns True
is_on_time(time_str) ==
    IF ~IntPairParses(get_deadline) THEN TRUE
    ELSE
    LET deadline_h == ParseInt(get_deadline[1])
        deadline_m == ParseInt(get_deadline[2])
        sub_time == strptime_IMp(time_str)
    IN IF deadline_h \notin 0..23 \/ deadline_m \notin 0..59 THEN TRUE
       ELSE \/ sub_time.hour < deadline_h
            \/ sub_time.hour = deadline_h /\ sub_time.minute <= deadline_m

\* late_command: t.hour > deadline_h or (t.hour == deadline_h and t.minute > deadline_m)
late_report_is_late(t, deadline_h, deadline_m) ==
    \/ t.hour > deadline_h
    \/ t.hour = deadline_h /\ t.minute > deadline_m

\* excel_handler.save_to_excel for a submission that arrived at hour:minute
\* (data["time"] = now.strftime("%I:%M %p")): the status cell of its row
excel_save_to_excel(hour, minute, ok) ==
    /\ pc = "idle"
    /\ ev' = Event("save_to_excel", "x", NoArgs, hour, minute)
    /\ result' = IF is_on_time(strftime_IMp(hour, minute)) THEN "on_time" ELSE "late"
    /\ effects' = <<<<"excel", ok>>>>
    /\ UNCHANGED <<STAFF_RECORDS, staff_file, HR_CHAT_ID, settings_file,
                   daily_log, daily_log_file, leave_log_file, pending_edits,
                   pending_leaves, allow_usage, prompts, today, pc, cur, shown,
                   accepted, other,
                   report, sheets>>

---------------------------------------------------------------------------
(* handle_message *)

ParseEmpIdAsTyped(token) == token

\* emp_id = match.group(1).strip().upper()
ParseEmpId(token) == Upper(token)

IsRegisteredBuiltIn(emp_id) == emp_id \in DOMAIN DefaultStaff

\* staff_info = config.STAFF_RECORDS.get(emp_id); if not staff_info: return
IsRegistered(emp_id) == emp_id \in DOMAIN STAFF_RECORDS

\* the date the submission is filed under: now.strftime("%Y-%m-%d")
SubmissionDay(now_day, hour) == now_day

MsgBeginSavesDuplicate(token, has_work, hour, minute) ==
    /\ pc = "idle"
    /\ concurrent_updates \/ other.pc = "idle"
    /\ Count(<<SubmissionDay(today, hour), ParseEmpId(token)>>) < MaxAccepted
    /\ ev' = Event("message", "x", <<token>>, hour, minute)
    /\ effects' = <<>>
    /\ LedgerFrame
    /\ UNCHANGED <<STAFF_RECORDS, staff_file, daily_log_file, accepted>>
    /\ IF ~has_work
       THEN /\ result' = "nomatch"
            /\ UNCHANGED <<daily_log, pc, cur>>
       ELSE IF ~IsRegistered(ParseEmpId(token))
       THEN /\ result' = "ignored"
            /\ UNCHANGED <<daily_log, pc, cur>>
       ELSE LET emp_id == ParseEmpId(token)
                today_str == SubmissionDay(today, hour)
                log0 == Hydrate(daily_log, daily_log_file)
                log1 == IF today_str \in DOMAIN log0 THEN log0
                        ELSE Put(log0, today_str, EmptyMap)
            IN /\ daily_log' = Loaded(log1)
               /\ result' = IF emp_id \in DOMAIN log1[today_str]
                            THEN "duplicate" ELSE "pending"
               /\ pc' = "excel"
               /\ cur' = [emp_id |-> emp_id, today_str |-> today_str]

\* UPDATE_PATTERN.match .. the duplicate check: the handler up to its first
\* await.  has_work: the text has a description after the first token.
MsgBegin(token, has_work, hour, minute) ==
    /\ pc = "idle"
    /\ concurrent_updates \/ other.pc = "idle"
    /\ Count(<<SubmissionDay(today, hour), ParseEmpId(token)>>) < MaxAccepted
    /\ ev' = Event("message", "x", <<token>>, hour, minute)
    /\ effects' = <<>>
    /\ LedgerFrame
    /\ UNCHANGED <<STAFF_RECORDS, staff_file, daily_log_file, accepted>>
    /\ IF ~has_work
       THEN /\ result' = "nomatch"
            /\ UNCHANGED <<daily_log, pc, cur>>
       ELSE IF ~IsRegistered(ParseEmpId(token))
       THEN /\ result' = "ignored"
            /\ UNCHANGED <<daily_log, pc, cur>>
       ELSE LET emp_id == ParseEmpId(token)
                today_str == SubmissionDay(today, hour)
                log0 == Hydrate(daily_log, daily_log_file)
                log1 == IF today_str \in DOMAIN log0 THEN log0
                        ELSE Put(log0, today_str, EmptyMap)
            IN /\ daily_log' = Loaded(log1)
               /\ IF emp_id \in DOMAIN log1[today_str]
                  THEN /\ result' = "duplicate"
                       /\ UNCHANGED <<pc, cur>>
                  ELSE /\ result' = "pending"
                       /\ pc' = "excel"
                       /\ cur' = [emp_id |-> emp_id, today_str |-> today_str]

IOStepAbortOnFailure(at, step, next, ok) ==
    /\ pc = at
    /\ pc' = IF ok THEN next ELSE "idle"
    /\ effects' = Append(effects, <<step, ok>>)
    /\ LedgerFrame
    /\ UNCHANGED <<STAFF_RECORDS, staff_file, daily_log, daily_log_file,
                   accepted, cur, ev, result>>

\* one awaited or blocking I/O step of the accepted path; its failure is caught
IOStep(at, step, next, ok) ==
    /\ pc = at
    /\ pc' = next
    /\ effects' = Append(effects, <<step, ok>>)
    /\ LedgerFrame
    /\ UNCHANGED <<STAFF_RECORDS, staff_file, daily_log, daily_log_file,
                   accepted, cur, ev, result>>

\* bot.py's own save_to_excel: a row without a status column
SaveExcel(ok) == IOStep("excel", "excel", "sheets", ok)

SaveSheetsNotAwaited(ok) ==
    /\ pc = "sheets"
    /\ pc' = "confirm"
    /\ LedgerFrame
    /\ UNCHANGED <<STAFF_RECORDS, staff_file, daily_log, daily_log_file,
                   accepted, cur, ev, result, effects>>

\* sheets_saved = await save_to_google_sheets(data): the worker thread's
\* result, or its exception, is awaited
SaveSheets(ok) == IOStep("sheets", "sheets", "confirm", ok)

Confirm(ok) == IOStep("confirm", "confirm", "notify_owner", ok)

\* send_personal_notification: nothing is sent to an endpoint that is not
\* configured; a send that raises is caught and logged
send_personal_notification(at, chat_id, step, next, ok) ==
    IF chat_id # ""
    THEN IOStep(at, step, next, ok)
    ELSE /\ pc = at
         /\ pc' = next
         /\ LedgerFrame
         /\ UNCHANGED <<STAFF_RECORDS, staff_file, daily_log, daily_log_file,
                        accepted, cur, ev, result, effects>>

NotifyOwner(ok) ==
    send_personal_notification("notify_owner", OWNER_CHAT_ID, "owner", "notify_hr", ok)

NotifyHRUnlessOwnerFailed(ok) ==
    IF effects # <<>> /\ effects[Len(effects)] = <<"owner", FALSE>>
    THEN send_personal_notification("notify_hr", "", "hr", "record", ok)
    ELSE send_personal_notification("notify_hr", HR_CHAT_ID, "hr", "record", ok)

NotifyHR(ok) ==
    send_personal_notification("notify_hr", HR_CHAT_ID, "hr", "record", ok)

\* daily_log[today_str][emp_id] = True; config.save_daily_log(daily_log)
Record(io) ==
    /\ pc = "record"
    /\ LET log == Put(daily_log.log, cur.today_str,
                      Put(daily_log.log[cur.today_str], cur.emp_id, PyTrue))
       IN /\ daily_log' = Loaded(log)
          /\ daily_log_file' = IF io THEN log ELSE daily_log_file
    /\ effects' = Append(effects, <<"ledger", io>>)
    /\ accepted' = IF <<cur.today_str, cur.emp_id>> \in DOMAIN accepted
                   THEN Put(accepted, <<cur.today_str, cur.emp_id>>,
                            Count(<<cur.today_str, cur.emp_id>>) + 1)
                   ELSE accepted
    /\ result' = "accepted"
    /\ pc' = "idle"
    /\ cur' = NoCur
    /\ LedgerFrame
    /\ UNCHANGED <<STAFF_RECORDS, staff_file, ev>>

---------------------------------------------------------------------------
(* /allow, /addstaff, /removestaff *)

\* state left alone by every command and callback (no handle_message runs)
IdleFrame == UNCHANGED <<pc, cur, accepted>>

allow_command(user, args, io) ==
    /\ pc = "idle"
    /\ ev' = Event("allow", user, args, 0, 0)
    /\ effects' = <<>>
    /\ LedgerFrame /\ IdleFrame
    /\ UNCHANGED <<STAFF_RECORDS, staff_file>>
    /\ IF ~OwnerOrHR(user)
       THEN /\ result' = "denied"
            /\ UNCHANGED <<daily_log, daily_log_file>>
       ELSE IF args = NoArgs
       THEN /\ result' = "usage"
            /\ UNCHANGED <<daily_log, daily_log_file>>
       ELSE LET emp_id == Upper(args[1])
                log0 == Hydrate(daily_log, daily_log_file)
            IN IF HasEntry(log0, today, emp_id)
               THEN /\ daily_log' = Loaded(DelEntry(log0, today, emp_id))
                    /\ daily_log_file' =
                           IF io THEN DelEntry(log0, today, emp_id)
                           ELSE daily_log_file
                    /\ result' = "cleared"
               ELSE /\ daily_log' = Loaded(log0)
                    /\ UNCHANGED daily_log_file
                    /\ result' = "not_submitted"

\* parts: the text after the command, split at "-" and stripped
addstaff_command(user, parts, io) ==
    /\ pc = "idle"
    /\ ev' = Event("addstaff", user, parts, 0, 0)
    /\ effects' = <<>>
    /\ LedgerFrame /\ IdleFrame
    /\ UNCHANGED <<daily_log, daily_log_file>>
    /\ IF ~OwnerOrHR(user)
       THEN /\ result' = "denied"
            /\ UNCHANGED <<STAFF_RECORDS, staff_file>>
       ELSE IF parts = NoArgs
       THEN /\ result' = "usage"
            /\ UNCHANGED <<STAFF_RECORDS, staff_file>>
       ELSE IF Len(parts) # 3
       THEN /\ result' = "format_error"
            /\ UNCHANGED <<STAFF_RECORDS, staff_file>>
       ELSE IF io
       THEN /\ staff_file' = save_staff_record(staff_file, parts[1], parts[2], parts[3])
            /\ STAFF_RECORDS' = load_staff_records(staff_file')
            /\ result' = "staff_added"
       ELSE /\ result' = "save_failed"
            /\ UNCHANGED <<STAFF_RECORDS, staff_file>>

removestaff_command(user, args, io) ==
    /\ pc = "idle"
    /\ ev' = Event("removestaff", user, args, 0, 0)
    /\ effects' = <<>>
    /\ LedgerFrame /\ IdleFrame
    /\ UNCHANGED <<daily_log, daily_log_file>>
    /\ IF ~OwnerOrHR(user)
       THEN /\ result' = "denied"
            /\ UNCHANGED <<STAFF_RECORDS, staff_file>>
       ELSE IF args = NoArgs
       THEN /\ result' = "usage"
            /\ UNCHANGED <<STAFF_RECORDS, staff_file>>
       ELSE IF Upper(args[1]) \notin DOMAIN STAFF_RECORDS
       THEN /\ result' = "not_found"
            /\ UNCHANGED <<STAFF_RECORDS, staff_file>>
       ELSE IF io /\ Upper(args[1]) \in DOMAIN load_staff_records(staff_file)
       THEN /\ staff_file' = remove_staff_record(staff_file, args[1])
            /\ STAFF_RECORDS' = load_staff_records(staff_file')
            /\ result' = "staff_removed"
       ELSE /\ result' = "remove_failed"
            /\ UNCHANGED <<STAFF_RECORDS, staff_file>>

ValidDeadlineAnyMinute(text) ==
    /\ Len(text) = 2
    /\ text[1] # <<>> /\ text[2] # <<>>
    /\ ParseInt(text[1]) \in 0..23

\* h, m = map(int, new_deadline.split(":")); 0 <= h <= 23 and 0 <= m <= 59:
\* two parts, each a non-empty string of digits, both in range
ValidDeadline(text) ==
    /\ Len(text) = 2
    /\ text[1] # <<>> /\ text[2] # <<>>
    /\ ParseInt(text[1]) \in 0..23
    /\ ParseInt(text[2]) \in 0..59

\* /deadline: args[1] is the new deadline text split at ":"
deadline_command(user, args, io) ==
    /\ pc = "idle"
    /\ ev' = Event("deadline", user, args, 0, 0)
    /\ effects' = <<>>
    /\ IdleFrame
    /\ UNCHANGED <<STAFF_RECORDS, staff_file, HR_CHAT_ID, daily_log,
                   daily_log_file, leave_log_file, pending_edits,
                   pending_leaves, allow_usage, prompts, today, shown, other,
                   report, sheets>>
    /\ IF ~is_admin(user)
       THEN /\ result' = "denied"
            /\ UNCHANGED settings_file
       ELSE IF args = NoArgs
       THEN /\ result' = "current_deadline"
            /\ UNCHANGED settings_file
       ELSE IF ~ValidDeadline(args[1])
       THEN /\ result' = "invalid_format"
            /\ UNCHANGED settings_file
       ELSE /\ result' = "deadline_updated"
            /\ settings_file' = IF io THEN [settings_file EXCEPT !.deadline = args[1]]
                                 ELSE settings_file

\* /sethr: only an owner; config.HR_CHAT_ID is set in memory and saved as a setting
sethr_command(user, args, io) ==
    /\ pc = "idle"
    /\ ev' = Event("sethr", user, args, 0, 0)
    /\ effects' = <<>>
    /\ IdleFrame
    /\ UNCHANGED <<STAFF_RECORDS, staff_file, daily_log, daily_log_file,
                   leave_log_file, pending_edits, pending_leaves, allow_usage,
                   prompts, today, shown, other,
                   report, sheets>>
    /\ IF user # OWNER_CHAT_ID /\ ~is_owner(user)
       THEN /\ result' = "denied"
            /\ UNCHANGED <<HR_CHAT_ID, settings_file>>
       ELSE IF args = NoArgs
       THEN /\ result' = "current_hr"
            /\ UNCHANGED <<HR_CHAT_ID, settings_file>>
       ELSE /\ result' = "hr_updated"
            /\ HR_CHAT_ID' = args[1]
            /\ settings_file' = IF io THEN [settings_file EXCEPT !.hr_chat_id = args[1]]
                                 ELSE settings_file

---------------------------------------------------------------------------
(* The clock and the process *)

Tick ==
    /\ pc = "idle"
    /\ today < MaxDay
    /\ today' = today + 1
    /\ UNCHANGED <<STAFF_RECORDS, staff_file, HR_CHAT_ID, settings_file,
                   daily_log, daily_log_file, leave_log_file, pending_edits,
                   pending_leaves, allow_usage, prompts, pc, cur, ev, result,
                   effects, shown, accepted, other,
                   report, sheets>>

\* the process stops and starts again: module globals are re-read from the
\* environment and staff.json, context.bot_data starts empty
Restart ==
    /\ pc = "idle"
    /\ STAFF_RECORDS' = load_staff_records(staff_file)
    /\ HR_CHAT_ID' = EnvHR
    /\ daily_log' = NotLoaded
    /\ pending_edits' = EmptyMap
    /\ pending_leaves' = EmptyMap
    /\ ev' = Event("restart", "x", NoArgs, 0, 0)
    /\ result' = "none"
    /\ effects' = <<>>
    /\ UNCHANGED <<staff_file, settings_file, daily_log_file, leave_log_file,
                   allow_usage, prompts, today, pc, cur, shown, accepted, other,
                   report, sheets>>

---------------------------------------------------------------------------
(* Re-submission requests and their Approve/Reject prompts *)

\* the configured cap of the Allow-Usage Counter
AllowCap == 1

\* a DD-MM-YYYY token as typed: "05-03-2026" or "5-3-2026"
DateToken(day, month, padded) == [day |-> day, month |-> month, padded |-> padded]

\* the payload of a re-submission prompt carries no date
NoDate == DateToken(0, 0, TRUE)

Prompt(kind, emp_id, date, to) ==
    [kind |-> kind, emp_id |-> emp_id, date |-> date, to |-> to]

\* for admin_id in [config.OWNER_CHAT_ID, config.HR_CHAT_ID]: if admin_id: send
AdminRecipients == {OWNER_CHAT_ID, HR_CHAT_ID} \ {""}

\* state left alone by the re-submission request and its callback
AllowFrame ==
    UNCHANGED <<STAFF_RECORDS, staff_file, HR_CHAT_ID, settings_file,
                leave_log_file, pending_edits, pending_leaves, today, shown, other,
                   report, sheets>>

\* The command that asks for a re-submission and sends the prompts that
\* allow_callback resolves: the first request of the day for an employee
\* with a ledger entry goes to the admins, a later one raises an alert.
allow_request(user, args) ==
    /\ pc = "idle"
    /\ ev' = Event("allow_request", user, args, 0, 0)
    /\ effects' = <<>>
    /\ AllowFrame /\ IdleFrame
    /\ UNCHANGED daily_log_file
    /\ IF args = NoArgs
       THEN /\ result' = "usage"
            /\ UNCHANGED <<daily_log, allow_usage, prompts>>
       ELSE LET emp_id == Upper(args[1])
                log0 == Hydrate(daily_log, daily_log_file)
            IN /\ daily_log' = Loaded(log0)
               /\ IF ~HasEntry(log0, today, emp_id)
                  THEN /\ result' = "not_submitted"
                       /\ UNCHANGED <<allow_usage, prompts>>
                  ELSE IF Get(allow_usage, <<today, emp_id>>, 0) >= AllowCap
                  THEN /\ result' = "alert"
                       /\ UNCHANGED <<allow_usage, prompts>>
                  ELSE /\ result' = "requested"
                       /\ allow_usage' =
                              Put(allow_usage, <<today, emp_id>>,
                                  Get(allow_usage, <<today, emp_id>>, 0) + 1)
                       /\ prompts' = prompts \cup
                              {Prompt("allow", emp_id, NoDate, a) :
                                   a \in AdminRecipients}

\* allow_callback: the holder of prompt p presses Approve or Reject.  Every
\* branch edits the message, which drops its buttons.
allow_callback(p, action, io) ==
    /\ pc = "idle"
    /\ p \in prompts /\ p.kind = "allow"
    /\ ev' = Event("allow_cb", p.to, <<action, p.emp_id, p.date>>, 0, 0)
    /\ effects' = <<>>
    /\ prompts' = prompts \ {p}
    /\ AllowFrame /\ IdleFrame
    /\ UNCHANGED allow_usage
    /\ IF ~OwnerOrHR(p.to)
       THEN /\ result' = "unauthorized"
            /\ UNCHANGED <<daily_log, daily_log_file>>
       ELSE IF action = "allow_approve"
       THEN LET log0 == Hydrate(daily_log, daily_log_file)
            IN /\ result' = "approved"
               /\ IF HasEntry(log0, today, p.emp_id)
                  THEN /\ daily_log' = Loaded(DelEntry(log0, today, p.emp_id))
                       /\ daily_log_file' =
                              IF io THEN DelEntry(log0, today, p.emp_id)
                              ELSE daily_log_file
                  ELSE /\ daily_log' = Loaded(log0)
                       /\ UNCHANGED daily_log_file
       ELSE /\ result' = "rejected"
            /\ UNCHANGED <<daily_log, daily_log_file>>

---------------------------------------------------------------------------
(* /edit and /leave requests, their callbacks, the leave ledger *)

FreeLeaves == 3
DeductionPerLeave == 500

\* the calendar date of an ordinal day
DateOfDay(ordinal) ==
    [month |-> ((ordinal - 1) \div MonthLen) + 1,
     day |-> ((ordinal - 1) % MonthLen) + 1]

\* now.strftime("%d-%m-%Y"): always zero-padded
strftime_dmY(ordinal) ==
    DateToken(DateOfDay(ordinal).day, DateOfDay(ordinal).month, TRUE)

\* datetime.strptime(token, "%d-%m-%Y") succeeds, padded or not
ValidDate(token) ==
    token.day \in 1..MonthLen /\ token.month \in 1..12

\* datetime.strptime(leave_date, "%d-%m-%Y").strftime("%Y-%m-%d")
LogKey(token) == <<token.month, token.day>>

\* the second argument of /leave as typed: a word ("today", "TODAY",
\* "Tomorrow", "sick", ..) or, with kind "date", a day-month-year token
LeaveArg(kind, date) == [kind |-> kind, date |-> date]

str_as_typed(word) == word

\* str.lower() on the words the requests are written with
str_lower(word) ==
    IF word \in {"today", "Today", "TODAY"} THEN "today"
    ELSE IF word \in {"tomorrow", "Tomorrow", "TOMORROW"} THEN "tomorrow"
    ELSE IF word \in {"sick", "Sick"} THEN "sick"
    ELSE word

\* leave_date of leave_command
LeaveDate(second_arg) ==
    IF str_lower(second_arg.kind) = "today" THEN strftime_dmY(today)
    ELSE IF str_lower(second_arg.kind) = "tomorrow" THEN strftime_dmY(today + 1)
    ELSE IF second_arg.kind = "date" /\ ValidDate(second_arg.date)
    THEN second_arg.date
    ELSE strftime_dmY(today)

\* reason of leave_command
LeaveReason(args) ==
    IF str_lower(args[2].kind) \in {"today", "tomorrow"}
       \/ (args[2].kind = "date" /\ ValidDate(args[2].date))
    THEN IF Len(args) > 2 THEN "rest" ELSE "Personal"
    ELSE "text"

\* state left alone by the edit and leave requests and their callbacks
RequestFrame ==
    UNCHANGED <<STAFF_RECORDS, staff_file, HR_CHAT_ID, settings_file,
                daily_log, daily_log_file, allow_usage, today, other,
                   report, sheets>>

edit_command_first_wins(user, args) ==
    /\ pc = "idle"
    /\ ev' = Event("edit", user, args, 0, 0)
    /\ effects' = <<>>
    /\ RequestFrame /\ IdleFrame
    /\ UNCHANGED <<leave_log_file, pending_leaves, shown>>
    /\ IF Len(args) < 2
       THEN /\ result' = "usage"
            /\ UNCHANGED <<pending_edits, prompts>>
       ELSE IF Upper(args[1]) \notin DOMAIN STAFF_RECORDS
       THEN /\ result' = "not_registered"
            /\ UNCHANGED <<pending_edits, prompts>>
       ELSE /\ result' = "edit_requested"
            /\ pending_edits' =
                   IF Upper(args[1]) \in DOMAIN pending_edits THEN pending_edits
                   ELSE Put(pending_edits, Upper(args[1]),
                            [new_text |-> args[2], date |-> strftime_dmY(today)])
            /\ prompts' = prompts \cup
                   {Prompt("edit", Upper(args[1]), NoDate, a) : a \in AdminRecipients}

\* context.bot_data["pending_edits"][emp_id] = {"new_text": .., "date": ..}
edit_command(user, args) ==
    /\ pc = "idle"
    /\ ev' = Event("edit", user, args, 0, 0)
    /\ effects' = <<>>
    /\ RequestFrame /\ IdleFrame
    /\ UNCHANGED <<leave_log_file, pending_leaves, shown>>
    /\ IF Len(args) < 2
       THEN /\ result' = "usage"
            /\ UNCHANGED <<pending_edits, prompts>>
       ELSE IF Upper(args[1]) \notin DOMAIN STAFF_RECORDS
       THEN /\ result' = "not_registered"
            /\ UNCHANGED <<pending_edits, prompts>>
       ELSE /\ result' = "edit_requested"
            /\ pending_edits' =
                   Put(pending_edits, Upper(args[1]),
                       [new_text |-> args[2], date |-> strftime_dmY(today)])
            /\ prompts' = prompts \cup
                   {Prompt("edit", Upper(args[1]), NoDate, a) : a \in AdminRecipients}

edit_callback(p, action) ==
    /\ pc = "idle"
    /\ p \in prompts /\ p.kind = "edit"
    /\ ev' = Event("edit_cb", p.to, <<action, p.emp_id, p.date>>, 0, 0)
    /\ effects' = <<>>
    /\ prompts' = prompts \ {p}
    /\ RequestFrame /\ IdleFrame
    /\ UNCHANGED <<leave_log_file, pending_leaves, shown>>
    /\ IF ~OwnerOrHR(p.to)
       THEN /\ result' = "unauthorized"
            /\ UNCHANGED pending_edits
       ELSE IF action = "edit_approve"
       THEN /\ result' = "edit_approved"
            /\ pending_edits' = Del(pending_edits, p.emp_id)
       ELSE /\ result' = "edit_rejected"
            /\ pending_edits' = Del(pending_edits, p.emp_id)

\* leave_command; sent: the prompts reached the admins (a send that fails is
\* logged and the request stays pending).  The pending entry also holds the
\* name and department, which nothing reads
leave_request(user, args, sent) ==
    /\ pc = "idle"
    /\ Cardinality({q \in prompts : q.kind = "leave"}) < MaxOpen
    /\ ev' = Event("leave", user, args, 0, 0)
    /\ effects' = <<>>
    /\ RequestFrame /\ IdleFrame
    /\ UNCHANGED <<leave_log_file, pending_edits, shown>>
    /\ IF Len(args) < 2
       THEN /\ result' = "usage"
            /\ UNCHANGED <<pending_leaves, prompts>>
       ELSE IF Upper(args[1]) \notin DOMAIN STAFF_RECORDS
       THEN /\ result' = "not_registered"
            /\ UNCHANGED <<pending_leaves, prompts>>
       ELSE LET emp_id == Upper(args[1])
                leave_date == LeaveDate(args[2])
            IN /\ result' = "leave_requested"
               /\ pending_leaves' =
                      Put(pending_leaves, <<emp_id, leave_date>>,
                          [emp_id |-> emp_id, date |-> leave_date,
                           reason |-> LeaveReason(args)])
               /\ prompts' = IF sent
                             THEN prompts \cup
                                  {Prompt("leave", emp_id, leave_date, a) :
                                      a \in AdminRecipients}
                             ELSE prompts

leave_command(user, args) == leave_request(user, args, TRUE)

count_monthly_leaves_any_employee(leave_log, emp_id, leave_date_str) ==
    IF ~ValidDate(leave_date_str) THEN 0
    ELSE Cardinality({k \in DOMAIN leave_log : k[1] = LogKey(leave_date_str)[1]})

\* count_monthly_leaves: the keys of leave_log.json that start with the
\* month of leave_date_str and hold emp_id; 0 when the date does not parse
count_monthly_leaves(leave_log, emp_id, leave_date_str) ==
    IF ~ValidDate(leave_date_str) THEN 0
    ELSE Cardinality({k \in DOMAIN leave_log :
                         k[1] = LogKey(leave_date_str)[1] /\ emp_id \in DOMAIN leave_log[k]})

AdminDeductionFromThird(leave_count) ==
    [extra |-> leave_count >= FreeLeaves,
     amount |-> IF leave_count >= FreeLeaves
                THEN (leave_count - FreeLeaves) * DeductionPerLeave ELSE 0]

\* leave_callback: if leave_count > 3: deduction = (leave_count - 3) * 500
AdminDeduction(leave_count) ==
    [extra |-> leave_count > FreeLeaves,
     amount |-> IF leave_count > FreeLeaves
                THEN (leave_count - FreeLeaves) * DeductionPerLeave ELSE 0]

\* save_leave_to_excel: is_extra = leave_count > 3;
\* deduction = (leave_count - 3) * 500 if is_extra else a dash
RegisterDeduction(leave_count) ==
    [extra |-> leave_count > FreeLeaves,
     amount |-> IF leave_count > FreeLeaves
                THEN (leave_count - FreeLeaves) * DeductionPerLeave ELSE 0]

GroupMessageWithDeduction(emp_id, staff_name, leave_date, admin_name, leave_count) ==
    [emp_id |-> emp_id, staff_name |-> staff_name, leave_date |-> leave_date,
     admin_name |-> admin_name,
     deduction |-> AdminDeduction(leave_count)]

\* leave_callback, the message to the chat the request came from: "`{emp_id}`
\* ({staff_name}) - leave on `{leave_date}` approved by {admin_name}."
GroupMessage(emp_id, staff_name, leave_date, admin_name, leave_count) ==
    [emp_id |-> emp_id, staff_name |-> staff_name, leave_date |-> leave_date,
     admin_name |-> admin_name, deduction |-> NoDeduction]

\* staff_name = config.STAFF_RECORDS.get(emp_id, {}).get("name", emp_id)
StaffName(emp_id) ==
    IF emp_id \in DOMAIN STAFF_RECORDS THEN STAFF_RECORDS[emp_id].name ELSE emp_id

\* leave_callback; io: save_leave_log wrote the file, xl: the register row
\* was written.  The date of a prompt always parses (leave_command sent it).
leave_callback(p, action, io, xl) ==
    /\ pc = "idle"
    /\ p \in prompts /\ p.kind = "leave"
    /\ ev' = Event("leave_cb", p.to, <<action, p.emp_id, p.date>>, 0, 0)
    /\ effects' = <<>>
    /\ prompts' = prompts \ {p}
    /\ RequestFrame /\ IdleFrame
    /\ UNCHANGED pending_edits
    /\ IF ~OwnerOrHR(p.to)
       THEN /\ result' = "unauthorized"
            /\ UNCHANGED <<leave_log_file, pending_leaves, shown>>
       ELSE IF action = "leave_approve"
       THEN LET log_key == LogKey(p.date)
                key == <<p.emp_id, p.date>>
                reason == IF key \in DOMAIN pending_leaves
                          THEN pending_leaves[key].reason ELSE "N/A"
                leave_log ==
                    Put(leave_log_file, log_key,
                        Put(Get(leave_log_file, log_key, EmptyMap), p.emp_id,
                            [approved_by |-> p.to, reason |-> reason]))
                saved == IF io THEN leave_log ELSE leave_log_file
                leave_count == count_monthly_leaves(saved, p.emp_id, p.date)
            IN /\ result' = "leave_approved"
               /\ leave_log_file' = saved
               /\ shown' = [count |-> leave_count,
                            admin |-> AdminDeduction(leave_count),
                            register |-> RegisterDeduction(leave_count),
                            wrote |-> xl,
                            group |-> GroupMessage(p.emp_id, StaffName(p.emp_id),
                                                   p.date, p.to, leave_count)]
               /\ pending_leaves' = Del(pending_leaves, key)
       ELSE /\ result' = "leave_rejected"
            /\ pending_leaves' = Del(pending_leaves, <<p.emp_id, p.date>>)
            /\ UNCHANGED <<leave_log_file, shown>>

---------------------------------------------------------------------------
(* The submission ledger and the roster *)

Init ==
    /\ STAFF_RECORDS = load_staff_records([exists |-> FALSE, data |-> EmptyMap])
    /\ staff_file = [exists |-> FALSE, data |-> EmptyMap]
    /\ HR_CHAT_ID = EnvHR
    /\ settings_file = NoSettings
    /\ daily_log = NotLoaded
    /\ daily_log_file = EmptyMap
    /\ leave_log_file = EmptyMap
    /\ pending_edits = EmptyMap
    /\ pending_leaves = EmptyMap
    /\ allow_usage = EmptyMap
    /\ prompts = {}
    /\ today = 1
    /\ pc = "idle"
    /\ cur = NoCur
    /\ ev = Event("none", "x", NoArgs, 0, 0)
    /\ result = "none"
    /\ effects = <<>>
    /\ shown = NoShown
    /\ accepted = EmptyMap
    /\ other = NoOther
    /\ report = NoReport
    /\ sheets = NoSheets

MsgTokens == {D1, d1, Hi}
Hours == {0, 12}
AllowArgs == {NoArgs, <<d1>>}
StaffParts == {NoArgs, <<d1>>, <<d1, <<"A", "n">>, <<"i", "t">>>>}
RemoveArgs == {NoArgs, <<d1>>}
SinkOk == {TRUE}

Next ==
    \/ \E token \in MsgTokens, has_work \in BOOLEAN, hour \in Hours :
           MsgBegin(token, has_work, hour, 0)
    \/ \E ok \in SinkOk : SaveExcel(ok)
    \/ \E ok \in SinkOk : SaveSheets(ok)
    \/ \E ok \in SinkOk : Confirm(ok)
    \/ \E ok \in SinkOk : NotifyOwner(ok)
    \/ \E ok \in SinkOk : NotifyHR(ok)
    \/ \E io \in BOOLEAN : Record(io)
    \/ \E user \in Users, args \in AllowArgs, io \in BOOLEAN :
           allow_command(user, args, io)
    \/ \E user \in Users, parts \in StaffParts, io \in BOOLEAN :
           addstaff_command(user, parts, io)
    \/ \E user \in Users, args \in RemoveArgs, io \in BOOLEAN :
           removestaff_command(user, args, io)
    \/ Tick
    \/ Restart

Spec == Init /\ [][Next]_vars

---------------------------------------------------------------------------
(* Re-submission: requests, prompts, approvals and the admin's /allow *)

\* the submissions of DEV-1 are counted on every day of the clock
InitAllow ==
    /\ STAFF_RECORDS = load_staff_records([exists |-> FALSE, data |-> EmptyMap])
    /\ staff_file = [exists |-> FALSE, data |-> EmptyMap]
    /\ HR_CHAT_ID = EnvHR
    /\ settings_file = NoSettings
    /\ daily_log = NotLoaded
    /\ daily_log_file = EmptyMap
    /\ leave_log_file = EmptyMap
    /\ pending_edits = EmptyMap
    /\ pending_leaves = EmptyMap
    /\ allow_usage = EmptyMap
    /\ prompts = {}
    /\ today = 1
    /\ pc = "idle"
    /\ cur = NoCur
    /\ ev = Event("none", "x", NoArgs, 0, 0)
    /\ result = "none"
    /\ effects = <<>>
    /\ shown = NoShown
    /\ accepted = [k \in {<<d, D1>> : d \in 1..MaxDay} |-> 0]
    /\ other = NoOther
    /\ report = NoReport
    /\ sheets = NoSheets

AllowTokens == {D1, d1}
AllowUsers == {"o1", "x"}
AllowActions == {"allow_approve", "allow_reject"}

NextApprove ==
    \/ \E token \in AllowTokens, hour \in Hours : MsgBegin(token, TRUE, hour, 0)
    \/ \E ok \in SinkOk : SaveExcel(ok)
    \/ \E ok \in SinkOk : SaveSheets(ok)
    \/ \E ok \in SinkOk : Confirm(ok)
    \/ \E ok \in SinkOk : NotifyOwner(ok)
    \/ \E ok \in SinkOk : NotifyHR(ok)
    \/ \E io \in BOOLEAN : Record(io)
    \/ \E args \in AllowArgs : allow_request("x", args)
    \/ \E p \in prompts, action \in AllowActions, io \in BOOLEAN :
           allow_callback(p, action, io)
    \/ Tick

SpecApprove == InitAllow /\ [][NextApprove]_vars

NextAllow ==
    \/ NextApprove
    \/ \E user \in AllowUsers, args \in AllowArgs, io \in BOOLEAN :
           allow_command(user, args, io)

SpecAllow == InitAllow /\ [][NextAllow]_vars

---------------------------------------------------------------------------
(* Approval callbacks: who may resolve a request *)

HRArgs == {NoArgs, <<"x">>}
OwnerOrNobody == {"o1", "x"}
EditArgs == {<<d1>>, <<d1, "t1">>}
TodayLeaveArgs == {<<d1>>, <<d1, LeaveArg("today", NoDate)>>}
EditActions == {"edit_approve", "edit_reject"}
LeaveActions == {"leave_approve", "leave_reject"}

NextApproval ==
    \/ MsgBegin(D1, TRUE, 12, 0)
    \/ SaveExcel(TRUE)
    \/ SaveSheets(TRUE)
    \/ Confirm(TRUE)
    \/ NotifyOwner(TRUE)
    \/ NotifyHR(TRUE)
    \/ Record(TRUE)
    \/ \E args \in AllowArgs : allow_request("x", args)
    \/ \E args \in EditArgs : edit_command("x", args)
    \/ \E args \in TodayLeaveArgs : leave_command("x", args)
    \/ \E p \in prompts, action \in AllowActions : allow_callback(p, action, TRUE)
    \/ \E p \in prompts, action \in EditActions : edit_callback(p, action)
    \/ \E p \in prompts, action \in LeaveActions : leave_callback(p, action, TRUE, TRUE)
    \/ \E user \in OwnerOrNobody, args \in HRArgs : sethr_command(user, args, TRUE)

SpecApproval == Init /\ [][NextApproval]_vars

---------------------------------------------------------------------------
(* The leave ledger and the monthly deduction *)

\* a deployment without an HR contact: HR_CHAT_ID is the empty string
InitLeave ==
    /\ STAFF_RECORDS = load_staff_records([exists |-> FALSE, data |-> EmptyMap])
    /\ staff_file = [exists |-> FALSE, data |-> EmptyMap]
    /\ HR_CHAT_ID = ""
    /\ settings_file = NoSettings
    /\ daily_log = NotLoaded
    /\ daily_log_file = EmptyMap
    /\ leave_log_file = EmptyMap
    /\ pending_edits = EmptyMap
    /\ pending_leaves = EmptyMap
    /\ allow_usage = EmptyMap
    /\ prompts = {}
    /\ today = 1
    /\ pc = "idle"
    /\ cur = NoCur
    /\ ev = Event("none", "x", NoArgs, 0, 0)
    /\ result = "none"
    /\ effects = <<>>
    /\ shown = NoShown
    /\ accepted = EmptyMap
    /\ other = NoOther
    /\ report = NoReport
    /\ sheets = NoSheets

LeaveArgs ==
    {<<d1, LeaveArg("date", DateToken(d, 1, TRUE))>> : d \in 1..MonthLen} \cup
    {<<d1, LeaveArg("date", DateToken(1, 2, TRUE))>>,
     <<d1, LeaveArg("date", DateToken(1, 1, FALSE))>>,
     <<d1, LeaveArg("date", DateToken(0, 1, TRUE))>>,
     <<d1, LeaveArg("tomorrow", NoDate)>>,
     <<d1>>}

NextLeave ==
    \/ \E args \in LeaveArgs : leave_command("x", args)
    \/ \E p \in prompts, action \in LeaveActions, io \in BOOLEAN, xl \in BOOLEAN :
           leave_callback(p, action, io, xl)
    \/ Tick

SpecLeave == InitLeave /\ [][NextLeave]_vars

---------------------------------------------------------------------------
(* The status cell: lateness against the deadline *)

ArrivalHours == 0..23
ArrivalMinutes == {0, 1, 59}
DeadlineHours == {0, 11, 12, 23}
DeadlineArgs ==
    {<<DeadlineText(h, m)>> : h \in DeadlineHours, m \in ArrivalMinutes} \cup
    {NoArgs, <<DeadlineText(24, 0)>>, <<DeadlineText(11, 60)>>, <<<<TwoDigits(11)>>>>}

NextLate ==
    \/ \E hour \in ArrivalHours, minute \in ArrivalMinutes, ok \in BOOLEAN :
           excel_save_to_excel(hour, minute, ok)
    \/ \E user \in OwnerOrNobody, args \in DeadlineArgs, io \in BOOLEAN :
           deadline_command(user, args, io)

SpecLate == Init /\ [][NextLate]_vars

---------------------------------------------------------------------------
(* The life of one leave request with two admins *)

LeaveFlowArgs ==
    {<<d1, LeaveArg("today", NoDate)>>,
     <<d1, LeaveArg("today", NoDate), "rest">>}

NextLeaveFlow ==
    \/ \E args \in LeaveFlowArgs : leave_command("x", args)
    \/ \E p \in prompts, action \in LeaveActions : leave_callback(p, action, TRUE, TRUE)
    \/ Restart
    \/ Tick

SpecLeaveFlow == Init /\ [][NextLeaveFlow]_vars

---------------------------------------------------------------------------
(* The admin-only commands and their callers *)

AdminDeadlineArgs == {NoArgs, <<DeadlineText(12, 0)>>}

NextAdmin ==
    \/ MsgBegin(D1, TRUE, 12, 0)
    \/ SaveExcel(TRUE)
    \/ SaveSheets(TRUE)
    \/ Confirm(TRUE)
    \/ NotifyOwner(TRUE)
    \/ NotifyHR(TRUE)
    \/ Record(TRUE)
    \/ \E user \in Users, args \in AllowArgs : allow_command(user, args, TRUE)
    \/ \E user \in Users, parts \in StaffParts : addstaff_command(user, parts, TRUE)
    \/ \E user \in Users, args \in RemoveArgs : removestaff_command(user, args, TRUE)
    \/ \E user \in Users, args \in AdminDeadlineArgs : deadline_command(user, args, TRUE)
    \/ \E user \in Users, args \in HRArgs : sethr_command(user, args, TRUE)

SpecAdmin == Init /\ [][NextAdmin]_vars

---------------------------------------------------------------------------
(* Malformed arguments *)

\* "09:30", "9:5" and the malformed "24:00", "11:60", "11", ":30",
\* "11:", "11:00:00"
ValidationDeadlineArgs ==
    {<<DeadlineText(9, 30)>>, <<<<<<9>>, <<5>>>>>>,
     <<DeadlineText(24, 0)>>, <<DeadlineText(11, 60)>>, <<<<TwoDigits(11)>>>>,
     <<<<<<>>, TwoDigits(30)>>>>, <<<<TwoDigits(11), <<>>>>>>,
     <<<<TwoDigits(11), TwoDigits(0), TwoDigits(0)>>>>}
ValidationEditArgs == {<<d1, "t1">>, <<Hi, "t1">>}
ValidationLeaveArgs ==
    {<<d1, LeaveArg("today", NoDate)>>, <<Hi, LeaveArg("today", NoDate)>>}
ValidationStaffParts ==
    {<<d1>>, <<d1, <<"A", "n">>>>, <<d1, <<"A", "n">>, <<"i", "t">>>>,
     <<d1, <<"A", "n">>, <<"i", "t">>, <<"x">>>>}
ValidationRemoveArgs == {<<d1>>}

NextValidation ==
    \/ \E args \in ValidationDeadlineArgs : deadline_command(OWNER_CHAT_ID, args, TRUE)
    \/ \E args \in ValidationEditArgs : edit_command("x", args)
    \/ \E args \in ValidationLeaveArgs : leave_command("x", args)
    \/ \E parts \in ValidationStaffParts : addstaff_command(OWNER_CHAT_ID, parts, TRUE)
    \/ \E args \in ValidationRemoveArgs : removestaff_command(OWNER_CHAT_ID, args, TRUE)
    \/ \E p \in prompts, action \in EditActions : edit_callback(p, action)
    \/ \E p \in prompts, action \in LeaveActions : leave_callback(p, action, TRUE, TRUE)

SpecValidation == Init /\ [][NextValidation]_vars

---------------------------------------------------------------------------
(* One submission and its sinks, each of which may fail *)

NextSinks ==
    \/ MsgBegin(D1, TRUE, 12, 0)
    \/ \E ok \in BOOLEAN : SaveExcel(ok)
    \/ \E ok \in BOOLEAN : SaveSheets(ok)
    \/ \E ok \in BOOLEAN : Confirm(ok)
    \/ \E ok \in BOOLEAN : NotifyOwner(ok)
    \/ \E ok \in BOOLEAN : NotifyHR(ok)
    \/ \E io \in BOOLEAN : Record(io)
    \/ allow_command(OWNER_CHAT_ID, <<d1>>, TRUE)

\* every call the handler makes returns or raises, and the handler goes on
SinksFairness ==
    /\ WF_vars(\E ok \in BOOLEAN : SaveExcel(ok))
    /\ WF_vars(\E ok \in BOOLEAN : SaveSheets(ok))
    /\ WF_vars(\E ok \in BOOLEAN : Confirm(ok))
    /\ WF_vars(\E ok \in BOOLEAN : NotifyOwner(ok))
    /\ WF_vars(\E ok \in BOOLEAN : NotifyHR(ok))
    /\ WF_vars(\E io \in BOOLEAN : Record(io))

SpecSinks == Init /\ [][NextSinks]_vars /\ SinksFairness

---------------------------------------------------------------------------
(* The deadline setting over its life *)

SettingDeadlineArgs ==
    {NoArgs, <<DeadlineText(12, 0)>>, <<DeadlineText(9, 30)>>,
     <<DeadlineText(24, 0)>>}
NoonOrBefore == {10, 12}

NextDeadline ==
    \/ \E user \in OwnerOrNobody, args \in SettingDeadlineArgs, io \in BOOLEAN :
           deadline_command(user, args, io)
    \/ \E user \in OwnerOrNobody, args \in HRArgs, io \in BOOLEAN :
           sethr_command(user, args, io)
    \/ \E hour \in NoonOrBefore : excel_save_to_excel(hour, 0, TRUE)
    \/ Restart

SpecDeadline == Init /\ [][NextDeadline]_vars

---------------------------------------------------------------------------
(* Two submission messages and the dispatcher *)

\* state a second handle_message leaves alone
OtherFrame ==
    UNCHANGED <<STAFF_RECORDS, staff_file, HR_CHAT_ID, settings_file,
                leave_log_file, pending_edits, pending_leaves, allow_usage,
                prompts, today, shown, pc, cur, ev, result, effects, report,
                sheets>>

OtherTask(at, emp_id, today_str, outcome) ==
    [pc |-> at, emp_id |-> emp_id, today_str |-> today_str, result |-> outcome]

\* the awaits of handle_message between its duplicate check and its insert
NextAwait(at) ==
    IF at = "sheets" THEN "confirm"
    ELSE IF at = "confirm" THEN "notify_owner"
    ELSE IF at = "notify_owner" THEN "notify_hr"
    ELSE "record"

\* handle_message for a second message, up to its first await (the registered
\* check, the duplicate check and the synchronous save_to_excel)
OtherBegin(token) ==
    /\ other.pc = "idle"
    /\ concurrent_updates \/ pc = "idle"
    /\ Count(<<today, ParseEmpId(token)>>) < MaxAccepted
    /\ OtherFrame
    /\ UNCHANGED <<daily_log_file, accepted>>
    /\ IF ~IsRegistered(ParseEmpId(token))
       THEN /\ other' = OtherTask("idle", ParseEmpId(token), today, "ignored")
            /\ UNCHANGED daily_log
       ELSE LET emp_id == ParseEmpId(token)
                log0 == Hydrate(daily_log, daily_log_file)
                log1 == IF today \in DOMAIN log0 THEN log0
                        ELSE Put(log0, today, EmptyMap)
            IN /\ daily_log' = Loaded(log1)
               /\ other' = IF emp_id \in DOMAIN log1[today]
                           THEN OtherTask("idle", emp_id, today, "duplicate")
                           ELSE OtherTask("sheets", emp_id, today, "pending")

\* one of its awaited calls returns or raises
OtherResume ==
    /\ other.pc \in {"sheets", "confirm", "notify_owner", "notify_hr"}
    /\ other' = [other EXCEPT !.pc = NextAwait(other.pc)]
    /\ OtherFrame
    /\ UNCHANGED <<daily_log, daily_log_file, accepted>>

\* daily_log[today_str][emp_id] = True; config.save_daily_log(daily_log)
OtherRecord(io) ==
    /\ other.pc = "record"
    /\ LET log == Put(daily_log.log, other.today_str,
                      Put(daily_log.log[other.today_str], other.emp_id, PyTrue))
       IN /\ daily_log' = Loaded(log)
          /\ daily_log_file' = IF io THEN log ELSE daily_log_file
    /\ accepted' = IF <<other.today_str, other.emp_id>> \in DOMAIN accepted
                   THEN Put(accepted, <<other.today_str, other.emp_id>>,
                            Count(<<other.today_str, other.emp_id>>) + 1)
                   ELSE accepted
    /\ other' = OtherTask("idle", other.emp_id, other.today_str, "accepted")
    /\ OtherFrame

NextDispatch ==
    \/ \E token \in AllowTokens : MsgBegin(token, TRUE, 12, 0)
    \/ \E ok \in BOOLEAN : SaveExcel(ok)
    \/ \E ok \in BOOLEAN : SaveSheets(ok)
    \/ \E ok \in BOOLEAN : Confirm(ok)
    \/ \E ok \in BOOLEAN : NotifyOwner(ok)
    \/ \E ok \in BOOLEAN : NotifyHR(ok)
    \/ \E io \in BOOLEAN : Record(io)
    \/ \E token \in AllowTokens : OtherBegin(token)
    \/ OtherResume
    \/ \E io \in BOOLEAN : OtherRecord(io)
    \/ Tick

SpecDispatch == InitAllow /\ [][NextDispatch]_vars

---------------------------------------------------------------------------
(* Start-up: main and the bot credential *)

\* os.getenv("BOT_TOKEN", ""): unset, or the credential
BotTokens == {"", "token"}

\* the process has been started and config imported; main has not run yet
InitStartup ==
    /\ STAFF_RECORDS = load_staff_records([exists |-> FALSE, data |-> EmptyMap])
    /\ staff_file = [exists |-> FALSE, data |-> EmptyMap]
    /\ HR_CHAT_ID = EnvHR
    /\ settings_file = NoSettings
    /\ daily_log = NotLoaded
    /\ daily_log_file = EmptyMap
    /\ leave_log_file = EmptyMap
    /\ pending_edits = EmptyMap
    /\ pending_leaves = EmptyMap
    /\ allow_usage = EmptyMap
    /\ prompts = {}
    /\ today = 1
    /\ pc = "starting"
    /\ cur = NoCur
    /\ ev = Event("none", "x", NoArgs, 0, 0)
    /\ result = "none"
    /\ effects = <<>>
    /\ shown = NoShown
    /\ accepted = EmptyMap
    /\ other = NoOther
    /\ report = NoReport
    /\ sheets = NoSheets

main_without_token_check(BOT_TOKEN) ==
    /\ pc = "starting"
    /\ ev' = Event("main", "x", <<BOT_TOKEN>>, 0, 0)
    /\ effects' = <<>>
    /\ result' = "polling"
    /\ pc' = "idle"
    /\ UNCHANGED <<STAFF_RECORDS, staff_file, HR_CHAT_ID, settings_file,
                   daily_log, daily_log_file, leave_log_file, pending_edits,
                   pending_leaves, allow_usage, prompts, today, cur, shown,
                   accepted, other,
                   report, sheets>>

\* main: if not config.BOT_TOKEN: log the error and return; otherwise build
\* the application, register the handlers and run_polling
main(BOT_TOKEN) ==
    /\ pc = "starting"
    /\ ev' = Event("main", "x", <<BOT_TOKEN>>, 0, 0)
    /\ effects' = <<>>
    /\ result' = IF BOT_TOKEN = "" THEN "no_token" ELSE "polling"
    /\ pc' = IF BOT_TOKEN = "" THEN "halted" ELSE "idle"
    /\ UNCHANGED <<STAFF_RECORDS, staff_file, HR_CHAT_ID, settings_file,
                   daily_log, daily_log_file, leave_log_file, pending_edits,
                   pending_leaves, allow_usage, prompts, today, cur, shown,
                   accepted, other,
                   report, sheets>>

\* the process is started again after it stopped or gave up: config is
\* imported afresh, context.bot_data is empty, main has not run yet
ProcessStart ==
    /\ pc \in {"idle", "halted"}
    /\ pc' = "starting"
    /\ STAFF_RECORDS' = load_staff_records(staff_file)
    /\ HR_CHAT_ID' = EnvHR
    /\ daily_log' = NotLoaded
    /\ pending_edits' = EmptyMap
    /\ pending_leaves' = EmptyMap
    /\ ev' = Event("restart", "x", NoArgs, 0, 0)
    /\ result' = "none"
    /\ effects' = <<>>
    /\ UNCHANGED <<staff_file, settings_file, daily_log_file, leave_log_file,
                   allow_usage, prompts, today, cur, shown, accepted, other,
                   report, sheets>>

NextStartup ==
    \/ \E BOT_TOKEN \in BotTokens : main(BOT_TOKEN)
    \/ ProcessStart
    \/ MsgBegin(D1, TRUE, 12, 0)
    \/ SaveExcel(TRUE)
    \/ SaveSheets(TRUE)
    \/ Confirm(TRUE)
    \/ NotifyOwner(TRUE)
    \/ NotifyHR(TRUE)
    \/ Record(TRUE)
    \/ \E user \in Users, args \in AllowArgs : allow_command(user, args, TRUE)
    \/ \E user \in Users, parts \in StaffParts : addstaff_command(user, parts, TRUE)

SpecStartup == InitStartup /\ [][NextStartup]_vars

---------------------------------------------------------------------------
(* The monthly leave count: two employees, two months *)

LeaveCountArgs ==
    {<<d1, LeaveArg("date", DateToken(1, 1, TRUE))>>,
     <<d1, LeaveArg("date", DateToken(1, 1, FALSE))>>,
     <<d1, LeaveArg("date", DateToken(2, 1, TRUE))>>,
     <<d1, LeaveArg("date", DateToken(1, 2, TRUE))>>,
     <<m1, LeaveArg("date", DateToken(1, 1, TRUE))>>,
     <<m1, LeaveArg("date", DateToken(3, 1, TRUE))>>}

NextLeaveCount ==
    \/ \E args \in LeaveCountArgs : leave_command("x", args)
    \/ \E p \in prompts, action \in LeaveActions, io \in BOOLEAN :
           leave_callback(p, action, io, TRUE)

SpecLeaveCount == InitLeave /\ [][NextLeaveCount]_vars

---------------------------------------------------------------------------
(* Edit requests *)

EditRequestArgs == {<<d1>>, <<d1, "t1">>, <<d1, "t2">>, <<m1, "t1">>}

NextEdit ==
    \/ MsgBegin(D1, TRUE, 12, 0)
    \/ SaveExcel(TRUE)
    \/ SaveSheets(TRUE)
    \/ Confirm(TRUE)
    \/ NotifyOwner(TRUE)
    \/ NotifyHR(TRUE)
    \/ Record(TRUE)
    \/ \E args \in EditRequestArgs : edit_command("x", args)
    \/ \E p \in prompts, action \in EditActions : edit_callback(p, action)
    \/ \E args \in TodayLeaveArgs : leave_command("x", args)
    \/ \E p \in prompts : leave_callback(p, "leave_approve", TRUE, TRUE)

SpecEdit == Init /\ [][NextEdit]_vars

---------------------------------------------------------------------------
(* The date and the reason of a leave request *)

LeaveWords == {"today", "Today", "TODAY", "tomorrow", "Tomorrow", "sick", "Sick"}
LeaveDateTokens ==
    {DateToken(3, 1, TRUE), DateToken(3, 1, FALSE), DateToken(1, 2, TRUE),
     DateToken(0, 1, TRUE), DateToken(1, 13, TRUE)}
LeaveSecondArgs ==
    {LeaveArg(w, NoDate) : w \in LeaveWords} \cup
    {LeaveArg("date", t) : t \in LeaveDateTokens}
LeaveDateArgs ==
    {<<d1, a>> : a \in LeaveSecondArgs} \cup
    {<<d1, a, "rest">> : a \in LeaveSecondArgs} \cup
    {<<m1, a>> : a \in LeaveSecondArgs}

NextLeaveDate ==
    \/ \E args \in LeaveDateArgs : leave_command("x", args)
    \/ \E p \in prompts : leave_callback(p, "leave_reject", TRUE, TRUE)
    \/ Tick

SpecLeaveDate == InitLeave /\ [][NextLeaveDate]_vars

---------------------------------------------------------------------------
(* Pending leave requests and the way their date was written *)

PendingLeaveArgs ==
    {<<d1, LeaveArg("today", NoDate)>>,
     <<d1, LeaveArg("date", DateToken(1, 1, TRUE)), "rest">>,
     <<d1, LeaveArg("date", DateToken(1, 1, FALSE))>>,
     <<m1, LeaveArg("today", NoDate)>>}

NextPendingLeave ==
    \/ \E args \in PendingLeaveArgs, sent \in BOOLEAN : leave_request("x", args, sent)
    \/ \E p \in prompts : leave_callback(p, "leave_reject", TRUE, TRUE)
    \/ Restart

SpecPendingLeave == InitLeave /\ [][NextPendingLeave]_vars

---------------------------------------------------------------------------
(* /absent and /remind: who has neither submitted nor a leave today *)

\* now.strftime("%Y-%m-%d") as a key of leave_log.json
TodayLeaveKey == <<DateOfDay(today).month, DateOfDay(today).day>>

AbsentTodayIgnoringLeave(today_log, today_leaves) ==
    {emp_id \in DOMAIN STAFF_RECORDS : emp_id \notin DOMAIN today_log}

\* for emp_id, info in config.STAFF_RECORDS.items():
\*     if emp_id not in today_log and emp_id not in today_leaves
AbsentToday(today_log, today_leaves) ==
    {emp_id \in DOMAIN STAFF_RECORDS :
        emp_id \notin DOMAIN today_log /\ emp_id \notin DOMAIN today_leaves}

\* state a report leaves alone
ReportFrame ==
    UNCHANGED <<STAFF_RECORDS, staff_file, HR_CHAT_ID, settings_file,
                daily_log_file, leave_log_file, pending_edits, pending_leaves,
                allow_usage, prompts, today, pc, cur, shown, accepted, other,
                sheets>>

absent_command(user) ==
    /\ pc = "idle"
    /\ ev' = Event("absent", user, NoArgs, 0, 0)
    /\ effects' = <<>>
    /\ ReportFrame
    /\ IF ~is_admin(user)
       THEN /\ result' = "denied"
            /\ UNCHANGED <<daily_log, report>>
       ELSE LET log == Hydrate(daily_log, daily_log_file)
                absent == AbsentToday(Get(log, today, EmptyMap),
                                      Get(leave_log_file, TodayLeaveKey, EmptyMap))
            IN /\ daily_log' = Loaded(log)
               /\ report' = [kind |-> "absent", listed |-> absent]
               /\ result' = IF absent = {} THEN "all_submitted" ELSE "absent_list"

\* group_id: config.GROUP_CHAT_ID, "" when unset; sent: the reminder reached
\* the group
remind_command(user, group_id, sent) ==
    /\ pc = "idle"
    /\ ev' = Event("remind", user, <<group_id>>, 0, 0)
    /\ effects' = <<>>
    /\ ReportFrame
    /\ IF ~is_admin(user)
       THEN /\ result' = "denied"
            /\ UNCHANGED <<daily_log, report>>
       ELSE IF group_id = ""
       THEN /\ result' = "no_group"
            /\ UNCHANGED <<daily_log, report>>
       ELSE LET log == Hydrate(daily_log, daily_log_file)
                pending == AbsentToday(Get(log, today, EmptyMap),
                                       Get(leave_log_file, TodayLeaveKey, EmptyMap))
            IN /\ daily_log' = Loaded(log)
               /\ IF pending = {}
                  THEN /\ result' = "all_submitted"
                       /\ report' = [kind |-> "remind", listed |-> pending]
                  ELSE IF sent
                  THEN /\ result' = "reminder_sent"
                       /\ report' = [kind |-> "remind", listed |-> pending]
                  ELSE /\ result' = "remind_failed"
                       /\ UNCHANGED report

AbsentTokens == {d1}
AbsentLeaveArgs == {<<m1, LeaveArg("today", NoDate)>>}
GroupIds == {"", "g"}

NextAbsent ==
    \/ \E token \in AbsentTokens : MsgBegin(token, TRUE, 12, 0)
    \/ SaveExcel(TRUE)
    \/ SaveSheets(TRUE)
    \/ Confirm(TRUE)
    \/ NotifyOwner(TRUE)
    \/ NotifyHR(TRUE)
    \/ Record(TRUE)
    \/ \E args \in AbsentLeaveArgs : leave_command("x", args)
    \/ \E p \in prompts : leave_callback(p, "leave_approve", TRUE, TRUE)
    \/ removestaff_command(OWNER_CHAT_ID, <<m1>>, TRUE)
    \/ \E user \in OwnerOrNobody : absent_command(user)
    \/ \E group_id \in GroupIds : remind_command(OWNER_CHAT_ID, group_id, TRUE)
    \/ Tick

SpecAbsent == Init /\ [][NextAbsent]_vars

---------------------------------------------------------------------------
(* /late: the late report *)

\* try: deadline_h, deadline_m = map(int, deadline.split(":"))
\* except Exception: deadline_h, deadline_m = 11, 0
late_command_deadline ==
    IF IntPairParses(get_deadline)
    THEN [h |-> ParseInt(get_deadline[1]), m |-> ParseInt(get_deadline[2])]
    ELSE [h |-> 11, m |-> 0]

\* the loop of late_command: an entry of a roster employee is late when it is a
\* dict with a time after the deadline; an entry without a time is on time
LateList(today_log) ==
    {emp_id \in DOMAIN today_log \cap DOMAIN STAFF_RECORDS :
        /\ today_log[emp_id].dict
        /\ today_log[emp_id].time # NoTime
        /\ late_report_is_late(strptime_IMp(today_log[emp_id].time),
                               late_command_deadline.h, late_command_deadline.m)}

late_command(user) ==
    /\ pc = "idle"
    /\ ev' = Event("late", user, NoArgs, 0, 0)
    /\ effects' = <<>>
    /\ ReportFrame
    /\ IF ~is_admin(user)
       THEN /\ result' = "denied"
            /\ UNCHANGED <<daily_log, report>>
       ELSE LET log == Hydrate(daily_log, daily_log_file)
            IN /\ daily_log' = Loaded(log)
               /\ report' = [kind |-> "late",
                             listed |-> LateList(Get(log, today, EmptyMap))]
               /\ result' = "late_report"

\* deadline texts found in bot_settings.json at start: none, "11:00", "11",
\* ":", "11:00:00", "24:00", "11:60"
StoredDeadlines ==
    {<<>>, DeadlineText(11, 0), <<TwoDigits(11)>>, <<<<>>, <<>>>>,
     <<TwoDigits(11), TwoDigits(0), TwoDigits(0)>>,
     DeadlineText(24, 0), DeadlineText(11, 60)}

\* daily_log.json found at start: empty, or holding today's entry of DEV-1 as
\* a dict with its submission time
StoredTimes == {strftime_IMp(10, 30), strftime_IMp(11, 30), strftime_IMp(12, 0)}
StoredLedgers ==
    {EmptyMap} \cup
    {Put(EmptyMap, 1, Put(EmptyMap, D1, DictEntry(time, late))) :
        time \in StoredTimes, late \in BOOLEAN}

InitLateReport ==
    /\ STAFF_RECORDS = load_staff_records([exists |-> FALSE, data |-> EmptyMap])
    /\ staff_file = [exists |-> FALSE, data |-> EmptyMap]
    /\ HR_CHAT_ID = EnvHR
    /\ settings_file \in {[deadline |-> text, hr_chat_id |-> ""] :
                            text \in StoredDeadlines}
    /\ daily_log = NotLoaded
    /\ daily_log_file \in StoredLedgers
    /\ leave_log_file = EmptyMap
    /\ pending_edits = EmptyMap
    /\ pending_leaves = EmptyMap
    /\ allow_usage = EmptyMap
    /\ prompts = {}
    /\ today = 1
    /\ pc = "idle"
    /\ cur = NoCur
    /\ ev = Event("none", "x", NoArgs, 0, 0)
    /\ result = "none"
    /\ effects = <<>>
    /\ shown = NoShown
    /\ accepted = EmptyMap
    /\ other = NoOther
    /\ report = NoReport
    /\ sheets = NoSheets

LateReportHours == {10, 12}

NextLateReport ==
    \/ \E hour \in LateReportHours : excel_save_to_excel(hour, 30, TRUE)
    \/ \E user \in OwnerOrNobody : late_command(user)
    \/ MsgBegin(m1, TRUE, 12, 30)
    \/ SaveExcel(TRUE)
    \/ SaveSheets(TRUE)
    \/ Confirm(TRUE)
    \/ NotifyOwner(TRUE)
    \/ NotifyHR(TRUE)
    \/ Record(TRUE)

SpecLateReport == InitLateReport /\ [][NextLateReport]_vars

---------------------------------------------------------------------------
(* The update sheets: the Sr No column *)

\* column A of a sheet, row by row: 0 is the header cell, -1 an empty cell,
\* n >= 1 the Sr No of a data row
MaxRows == 3

\* openpyxl ws.max_row: 1 for a sheet without cells
max_row(ws) == IF ws.rows = <<>> THEN 1 ELSE Len(ws.rows)

\* ws.cell(row=next_row, column=1, value=v): rows skipped over stay empty
SetCell(rows, next_row, v) ==
    [i \in 1..next_row |->
        IF i = next_row THEN v ELSE IF i <= Len(rows) THEN rows[i] ELSE -1]

\* sr_no = len(existing): the row count, header included
SrNoCountingRows(existing) == Len(existing)

\* excel_handler._save_to_google_sheets_sync:
\* sr_no = len(existing) if existing else 1
SrNoOrOne(existing) == IF existing # <<>> THEN Len(existing) ELSE 1

\* state the sheet writers leave alone
SheetFrame ==
    UNCHANGED <<STAFF_RECORDS, staff_file, HR_CHAT_ID, settings_file,
                daily_log, daily_log_file, leave_log_file, pending_edits,
                pending_leaves, allow_usage, prompts, today, pc, cur, shown,
                accepted, other, report>>

\* bot.save_to_excel: an existing workbook gets the row after max_row with
\* Sr No max_row; a new one gets the header and its first row with Sr No 1
save_to_excel ==
    /\ pc = "idle"
    /\ Len(sheets.excel.rows) <= MaxRows
    /\ ev' = Event("save_to_excel_row", "x", NoArgs, 0, 0)
    /\ effects' = <<>>
    /\ result' = "saved"
    /\ SheetFrame
    /\ LET ws == sheets.excel
           next_row == IF ws.exists THEN max_row(ws) + 1 ELSE 2
           sr_no == IF ws.exists THEN next_row - 1 ELSE 1
           rows == IF ws.exists THEN ws.rows ELSE <<0>>
       IN sheets' = [sheets EXCEPT
                        !.excel = [exists |-> TRUE,
                                   rows |-> SetCell(rows, next_row, sr_no)]]

\* bot._save_to_google_sheets_sync: an empty sheet1 gets the header first
bot_save_to_google_sheets_sync ==
    /\ pc = "idle"
    /\ Len(sheets.remote.rows) <= MaxRows
    /\ ev' = Event("sheets_row", "x", NoArgs, 0, 0)
    /\ effects' = <<>>
    /\ result' = "saved"
    /\ SheetFrame
    /\ LET existing == sheets.remote.rows
           sr_no == IF existing = <<>> THEN 1 ELSE SrNoCountingRows(existing)
           rows == IF existing = <<>> THEN <<0>> ELSE existing
       IN sheets' = [sheets EXCEPT
                        !.remote = [exists |-> TRUE, rows |-> Append(rows, sr_no)]]

\* excel_handler._save_to_google_sheets_sync: only a worksheet that is not
\* found gets the header
save_to_google_sheets_sync ==
    /\ pc = "idle"
    /\ Len(sheets.monthly.rows) <= MaxRows
    /\ ev' = Event("monthly_row", "x", NoArgs, 0, 0)
    /\ effects' = <<>>
    /\ result' = "saved"
    /\ SheetFrame
    /\ LET existing == IF sheets.monthly.exists THEN sheets.monthly.rows ELSE <<0>>
           sr_no == SrNoOrOne(existing)
       IN sheets' = [sheets EXCEPT
                        !.monthly = [exists |-> TRUE,
                                     rows |-> Append(existing, sr_no)]]

\* sheets found at start: none, an existing one without cells, one with only
\* the header
StoredSheets == {NoSheet, [exists |-> TRUE, rows |-> <<>>],
                 [exists |-> TRUE, rows |-> <<0>>]}

InitSheets ==
    /\ STAFF_RECORDS = load_staff_records([exists |-> FALSE, data |-> EmptyMap])
    /\ staff_file = [exists |-> FALSE, data |-> EmptyMap]
    /\ HR_CHAT_ID = EnvHR
    /\ settings_file = NoSettings
    /\ daily_log = NotLoaded
    /\ daily_log_file = EmptyMap
    /\ leave_log_file = EmptyMap
    /\ pending_edits = EmptyMap
    /\ pending_leaves = EmptyMap
    /\ allow_usage = EmptyMap
    /\ prompts = {}
    /\ today = 1
    /\ pc = "idle"
    /\ cur = NoCur
    /\ ev = Event("none", "x", NoArgs, 0, 0)
    /\ result = "none"
    /\ effects = <<>>
    /\ shown = NoShown
    /\ accepted = EmptyMap
    /\ other = NoOther
    /\ report = NoReport
    /\ sheets \in [excel : StoredSheets, remote : StoredSheets,
                   monthly : StoredSheets]

NextSheets ==
    \/ save_to_excel
    \/ bot_save_to_google_sheets_sync
    \/ save_to_google_sheets_sync

SpecSheets == InitSheets /\ [][NextSheets]_vars

---------------------------------------------------------------------------
(* /addstaff and /removestaff: the identifiers of the roster *)

\* "/addstaff d1 - An - it", "/addstaff - An - it" (nothing before the first
\* dash), "/addstaff d 1 - An - it", "/addstaff h1 - Bi - it", "/addstaff d1"
RosterParts ==
    {<<d1, <<"A", "n">>, <<"i", "t">>>>,
     <<<<>>, <<"A", "n">>, <<"i", "t">>>>,
     <<<<"d", " ", "1">>, <<"A", "n">>, <<"i", "t">>>>,
     <<<<"h", "1">>, <<"B", "i">>, <<"i", "t">>>>,
     <<d1>>}
RosterRemoveArgs == {<<d1>>, <<m1>>, <<<<"h", "1">>>>}

NextRoster ==
    \/ \E user \in OwnerOrNobody, parts \in RosterParts, io \in BOOLEAN :
           addstaff_command(user, parts, io)
    \/ \E user \in OwnerOrNobody, args \in RosterRemoveArgs, io \in BOOLEAN :
           removestaff_command(user, args, io)
    \/ Restart

SpecRoster == Init /\ [][NextRoster]_vars

---------------------------------------------------------------------------
(* The supervisor notifications of an accepted submission *)

\* the HR contact of the environment: set or not
InitNotify ==
    /\ STAFF_RECORDS = load_staff_records([exists |-> FALSE, data |-> EmptyMap])
    /\ staff_file = [exists |-> FALSE, data |-> EmptyMap]
    /\ HR_CHAT_ID \in {EnvHR, ""}
    /\ settings_file = NoSettings
    /\ daily_log = NotLoaded
    /\ daily_log_file = EmptyMap
    /\ leave_log_file = EmptyMap
    /\ pending_edits = EmptyMap
    /\ pending_leaves = EmptyMap
    /\ allow_usage = EmptyMap
    /\ prompts = {}
    /\ today = 1
    /\ pc = "idle"
    /\ cur = NoCur
    /\ ev = Event("none", "x", NoArgs, 0, 0)
    /\ result = "none"
    /\ effects = <<>>
    /\ shown = NoShown
    /\ accepted = EmptyMap
    /\ other = NoOther
    /\ report = NoReport
    /\ sheets = NoSheets

NextNotify ==
    \/ MsgBegin(d1, TRUE, 12, 0)
    \/ SaveExcel(TRUE)
    \/ SaveSheets(TRUE)
    \/ Confirm(TRUE)
    \/ \E ok \in BOOLEAN : NotifyOwner(ok)
    \/ \E ok \in BOOLEAN : NotifyHR(ok)
    \/ \E io \in BOOLEAN : Record(io)
    \/ \E args \in HRArgs : sethr_command(OWNER_CHAT_ID, args, TRUE)
    \/ allow_command(OWNER_CHAT_ID, <<d1>>, TRUE)

SpecNotify == InitNotify /\ [][NextNotify]_vars

---------------------------------------------------------------------------
(* Claims *)

EntryExists(log, day, emp_id) == day \in DOMAIN log /\ emp_id \in DOMAIN log[day]

\* C1: while the ledger holds an entry for (today, E), a submission message
\* whose first token is E in any letter case, E being in the roster, gets the
\* duplicate reply, starts no processing and leaves the ledger, in memory and
\* on disk, as it was.
C1_DuplicateRejected ==
    [][\A token \in MsgTokens, hour \in Hours :
          ( /\ MsgBegin(token, TRUE, hour, 0)
            /\ Upper(token) \in DOMAIN STAFF_RECORDS
            /\ EntryExists(Hydrate(daily_log, daily_log_file), today, Upper(token)) )
          => /\ result' = "duplicate"
             /\ pc' = "idle"
             /\ daily_log_file' = daily_log_file
             /\ daily_log'.log = Hydrate(daily_log, daily_log_file)]_vars

C1_Witness ==
    /\ ev.type = "message"
    /\ result = "duplicate"
    /\ ev.args = <<d1>>
    /\ EntryExists(daily_log.log, today, D1)
    /\ EntryExists(daily_log_file, today, D1)

\* C2: while the only re-submission request ever made is the one for (E, D),
\* whatever Approve presses its prompts get, at most two submissions for
\* (E, D) are accepted.
C2_AtMostTwoAccepted ==
    \A k \in DOMAIN accepted :
        (DOMAIN allow_usage \subseteq {k} /\ Get(allow_usage, k, 0) <= 1)
            => accepted[k] <= 2

\* C3: once the Allow-Usage Counter of (today, E) has reached its cap, an
\* allowance for (today, E) is denied and clears no ledger entry.
C3_LaterAllowanceDenied ==
    [][\A user \in AllowUsers, args \in AllowArgs, io \in BOOLEAN :
          ( /\ args # NoArgs
            /\ allow_command(user, args, io)
            /\ Get(allow_usage, <<today, Upper(args[1])>>, 0) >= AllowCap )
          => /\ result' # "cleared"
             /\ daily_log_file' = daily_log_file]_vars

\* C5: a submission that arrives in the hour after midnight is filed under
\* the previous calendar date.
C5_GraceWindowPreviousDate ==
    (pc # "idle" /\ ev.hour = 0) => cur.today_str = today - 1

\* C7: a message whose upper-cased first token is not in the roster changes
\* no ledger entry, starts no sink write and no notification.
C7_UnregisteredIgnored ==
    [][\A token \in MsgTokens, has_work \in BOOLEAN, hour \in Hours :
          ( /\ MsgBegin(token, has_work, hour, 0)
            /\ Upper(token) \notin DOMAIN STAFF_RECORDS )
          => /\ UNCHANGED <<daily_log, daily_log_file>>
             /\ pc' = "idle"
             /\ effects' = <<>>]_vars

C7_Witness ==
    /\ ev.type = "message"
    /\ result = "ignored"
    /\ ev.args = <<d1>>
    /\ D1 \notin DOMAIN STAFF_RECORDS
    /\ EntryExists(daily_log_file, today, D1)

\* C8: a successful add of (id, name, dept) maps upper(id) to the exact name
\* and upper(dept), in memory and in staff.json; a remove of an id that is not
\* in the roster fails and changes neither; a successful remove takes out that
\* id and leaves every other entry as it was.
C8_RosterRoundTrip ==
    [][ /\ \A user \in Users, parts \in StaffParts, io \in BOOLEAN :
              (addstaff_command(user, parts, io) /\ result' = "staff_added")
              => /\ Upper(parts[1]) \in DOMAIN STAFF_RECORDS'
                 /\ STAFF_RECORDS'[Upper(parts[1])] =
                        [name |-> parts[2], dept |-> Upper(parts[3])]
                 /\ \A k \in DOMAIN STAFF_RECORDS \ {Upper(parts[1])} :
                        k \in DOMAIN STAFF_RECORDS' /\ STAFF_RECORDS'[k] = STAFF_RECORDS[k]
                 /\ staff_file'.exists /\ staff_file'.data = STAFF_RECORDS'
        /\ \A user \in Users, args \in RemoveArgs, io \in BOOLEAN :
              ( /\ args # NoArgs
                /\ removestaff_command(user, args, io)
                /\ Upper(args[1]) \notin DOMAIN STAFF_RECORDS )
              => /\ result' \in {"not_found", "denied"}
                 /\ UNCHANGED <<STAFF_RECORDS, staff_file>>
        /\ \A user \in Users, args \in RemoveArgs, io \in BOOLEAN :
              (removestaff_command(user, args, io) /\ result' = "staff_removed")
              => /\ DOMAIN STAFF_RECORDS' = DOMAIN STAFF_RECORDS \ {Upper(args[1])}
                 /\ \A k \in DOMAIN STAFF_RECORDS' : STAFF_RECORDS'[k] = STAFF_RECORDS[k]
                 /\ staff_file'.exists /\ staff_file'.data = STAFF_RECORDS' ]_vars

C8_Witness ==
    /\ ev.type = "addstaff"
    /\ result = "staff_added"
    /\ ev.args[1] = d1
    /\ D1 \in DOMAIN STAFF_RECORDS
    /\ STAFF_RECORDS[D1] = [name |-> <<"A", "n">>, dept |-> <<"I", "T">>]
    /\ staff_file.exists

ClearPost(emp_id) ==
    LET log0 == Hydrate(daily_log, daily_log_file)
    IN /\ ~EntryExists(daily_log'.log, today, emp_id)
       /\ ~EntryExists(log0, today, emp_id)
              => daily_log'.log = log0 /\ daily_log_file' = daily_log_file

\* C9: a clear by an admin (/allow or an approved re-submission) leaves no
\* entry for (today, E) in memory, and when there was none it changes neither
\* the ledger in memory nor daily_log.json, so a second clear changes nothing.
C9_ClearIdempotent ==
    [][ /\ \A user \in AllowUsers, args \in AllowArgs, io \in BOOLEAN :
              (args # NoArgs /\ OwnerOrHR(user) /\ allow_command(user, args, io))
              => /\ ClearPost(Upper(args[1]))
                 /\ result' \in {"cleared", "not_submitted"}
                 /\ ~EntryExists(Hydrate(daily_log, daily_log_file), today, Upper(args[1]))
                        => result' = "not_submitted"
        /\ \A p \in prompts, io \in BOOLEAN :
              (OwnerOrHR(p.to) /\ allow_callback(p, "allow_approve", io))
              => ClearPost(p.emp_id) /\ result' = "approved" ]_vars

C9_Witness ==
    /\ ev.type = "allow"
    /\ ev.user = OWNER_CHAT_ID
    /\ result = "not_submitted"
    /\ ev.args = <<d1>>
    /\ accepted[<<today, D1>>] >= 1
    /\ ~EntryExists(daily_log.log, today, D1)
    /\ ~EntryExists(daily_log_file, today, D1)


\* C4: the status cell of a submission is "late" exactly when its arrival
\* (hour, minute) is strictly greater than the deadline (hour first, then
\* minute), and the comparison of the late report agrees.
C4_LateIffAfterDeadline ==
    ev.type = "save_to_excel" =>
        LET d == settings_file.deadline
            dh == IF d = <<>> THEN 11 ELSE 10 * d[1][1] + d[1][2]
            dm == IF d = <<>> THEN 0 ELSE 10 * d[2][1] + d[2][2]
            late == ev.hour > dh \/ (ev.hour = dh /\ ev.minute > dm)
        IN /\ (result = "late") = late
           /\ late_report_is_late(strptime_IMp(strftime_IMp(ev.hour, ev.minute)),
                                  dh, dm) = late

C4_Witness ==
    /\ ev.type = "save_to_excel"
    /\ settings_file.deadline = DeadlineText(12, 1)
    /\ ev.hour = 12 /\ ev.minute = 1
    /\ result = "on_time"

\* C6: after an approval that leaves the employee's record of that date in
\* leave_log.json, with n the number of dates of that month on which the
\* employee has a record, no deduction is shown when n <= 3, the deduction
\* shown is (n - 3) * 500 when n > 3, and the register row holds the same.
C6_LeaveDeduction ==
    ( /\ ev.type = "leave_cb"
      /\ result = "leave_approved"
      /\ LogKey(ev.args[3]) \in DOMAIN leave_log_file
      /\ ev.args[2] \in DOMAIN leave_log_file[LogKey(ev.args[3])] )
    => LET n == Cardinality({d \in 1..MonthLen :
                   /\ <<ev.args[3].month, d>> \in DOMAIN leave_log_file
                   /\ ev.args[2] \in DOMAIN leave_log_file[<<ev.args[3].month, d>>]})
       IN /\ shown.count = n
          /\ n <= 3 => ~shown.admin.extra
          /\ n > 3 => shown.admin.extra /\ shown.admin.amount = (n - 3) * 500
          /\ shown.register = shown.admin

C6_Witness ==
    /\ ev.type = "leave_cb"
    /\ result = "leave_approved"
    /\ shown.count = 5
    /\ shown.admin.amount = 1000
    /\ shown.wrote
    /\ Cardinality(DOMAIN leave_log_file) >= 5

\* C10: when the holder of a prompt who is neither the primary owner nor the
\* HR contact presses Approve or Reject, the submission ledger, the leave
\* ledger and the pending stores stay as they were and the other prompts of
\* the request stay open.
C10_OnlyAdminsResolve ==
    [][\A p \in prompts :
          ( /\ ~(p.to = OWNER_CHAT_ID \/ p.to = HR_CHAT_ID)
            /\ \/ \E action \in AllowActions : allow_callback(p, action, TRUE)
               \/ \E action \in EditActions : edit_callback(p, action)
               \/ \E action \in LeaveActions : leave_callback(p, action, TRUE, TRUE) )
          => /\ UNCHANGED <<daily_log, daily_log_file, leave_log_file,
                            pending_edits, pending_leaves, shown>>
             /\ prompts' = prompts \ {p}
             /\ result' = "unauthorized"]_vars

C10_Witness ==
    /\ ev.type = "leave_cb"
    /\ result = "unauthorized"
    /\ ev.user = "h"
    /\ \E k \in DOMAIN pending_leaves : k[1] = D1
    /\ \E q \in prompts : q.kind = "leave" /\ q.to = OWNER_CHAT_ID

\* C11: an Approve press on a leave prompt whose request is no longer pending
\* (rejected, or lost by a restart), for an employee and date without a Leave
\* Record, creates no Leave Record: leave_log.json stays as it was.
C11_ApproveNeedsPending ==
    [][\A p \in prompts :
          ( /\ <<p.emp_id, p.date>> \notin DOMAIN pending_leaves
            /\ ~EntryExists(leave_log_file, LogKey(p.date), p.emp_id)
            /\ leave_callback(p, "leave_approve", TRUE, TRUE) )
          => leave_log_file' = leave_log_file]_vars

\* C12: a Leave Record, once in leave_log.json, keeps its reason and its
\* approving admin and is never removed.
C12_LeaveRecordImmutable ==
    [][\A k \in DOMAIN leave_log_file :
          \A e \in DOMAIN leave_log_file[k] :
              /\ k \in DOMAIN leave_log_file'
              /\ e \in DOMAIN leave_log_file'[k]
              /\ leave_log_file'[k][e] = leave_log_file[k][e]]_vars

\* C13: right after a Reject of a re-submission prompt for E, an Approve press
\* on another copy of that prompt clears no ledger entry.
C13_RejectIsTerminal ==
    [][\A p \in prompts, io \in BOOLEAN :
          ( /\ ev.type = "allow_cb"
            /\ result = "rejected"
            /\ ev.args[2] = p.emp_id
            /\ allow_callback(p, "allow_approve", io) )
          => /\ daily_log'.log = Hydrate(daily_log, daily_log_file)
             /\ daily_log_file' = daily_log_file]_vars


\* a caller that is neither one of the owners nor the HR contact
NotAnAdmin(user) ==
    /\ \A i \in DOMAIN OWNER_CHAT_IDS : user # OWNER_CHAT_IDS[i]
    /\ user # HR_CHAT_ID

\* C14: when a caller that is not an admin invokes /addstaff, /removestaff,
\* /allow, /deadline or /sethr, the command is denied and the roster, the
\* submission ledger, the leave ledger, the deadline setting and the HR contact
\* are unchanged, in memory and on disk.
C14_DenialMutatesNothing ==
    [][\A user \in Users :
          ( /\ NotAnAdmin(user)
            /\ \/ \E args \in AllowArgs : allow_command(user, args, TRUE)
               \/ \E parts \in StaffParts : addstaff_command(user, parts, TRUE)
               \/ \E args \in RemoveArgs : removestaff_command(user, args, TRUE)
               \/ \E args \in AdminDeadlineArgs : deadline_command(user, args, TRUE)
               \/ \E args \in HRArgs : sethr_command(user, args, TRUE) )
          => /\ result' = "denied"
             /\ UNCHANGED <<STAFF_RECORDS, staff_file, daily_log, daily_log_file,
                            leave_log_file, settings_file, HR_CHAT_ID>>]_vars

\* a denied /deadline with an argument, while the ledger holds an entry, the
\* roster file exists and a deadline is set
C14_Witness ==
    /\ ev.type = "deadline"
    /\ ev.args # NoArgs
    /\ NotAnAdmin(ev.user)
    /\ result = "denied"
    /\ EntryExists(daily_log_file, today, D1)
    /\ staff_file.exists
    /\ settings_file.deadline # <<>>


\* the text is HH:MM: an hour and a minute, each written in digits, separated
\* by one colon, with 0 <= HH <= 23 and 0 <= MM <= 59
IsHHMM(text) ==
    /\ Len(text) = 2
    /\ \A i \in 1..2 : Len(text[i]) >= 1
    /\ ParseInt(text[1]) >= 0 /\ ParseInt(text[1]) <= 23
    /\ ParseInt(text[2]) >= 0 /\ ParseInt(text[2]) <= 59

\* C15: a /deadline whose argument is not HH:MM in range leaves the deadline
\* as it was; an /edit or /leave naming an unregistered employee creates no
\* pending request and sends no prompt; an /addstaff without exactly three
\* fields leaves the roster as it was, in memory and on disk.
C15_ValidationMutatesNothing ==
    [][/\ \A args \in ValidationDeadlineArgs :
            ( /\ ~IsHHMM(args[1])
              /\ deadline_command(OWNER_CHAT_ID, args, TRUE) )
            => /\ result' = "invalid_format"
               /\ UNCHANGED <<settings_file, HR_CHAT_ID>>
       /\ \A args \in ValidationEditArgs :
            ( /\ Upper(args[1]) \notin DOMAIN STAFF_RECORDS
              /\ edit_command("x", args) )
            => /\ result' = "not_registered"
               /\ UNCHANGED <<pending_edits, pending_leaves, prompts>>
       /\ \A args \in ValidationLeaveArgs :
            ( /\ Upper(args[1]) \notin DOMAIN STAFF_RECORDS
              /\ leave_command("x", args) )
            => /\ result' = "not_registered"
               /\ UNCHANGED <<pending_edits, pending_leaves, prompts,
                              leave_log_file>>
       /\ \A parts \in ValidationStaffParts :
            ( /\ Len(parts) # 3
              /\ addstaff_command(OWNER_CHAT_ID, parts, TRUE) )
            => /\ result' \in {"usage", "format_error"}
               /\ UNCHANGED <<STAFF_RECORDS, staff_file>>]_vars

\* a /deadline 11:60 answered with the format error after a deadline was set,
\* while requests of registered employees are pending
C15_Witness ==
    /\ ev.type = "deadline"
    /\ ev.args = <<DeadlineText(11, 60)>>
    /\ result = "invalid_format"
    /\ settings_file.deadline = DeadlineText(9, 30)
    /\ pending_edits # EmptyMap
    /\ pending_leaves # EmptyMap


\* the steps of the accepted path, in the order the handler takes them
StepsTaken == [i \in DOMAIN effects |-> effects[i][1]]

\* C16: once a registered, non-duplicate submission has passed the duplicate
\* check, whatever succeeds or fails among the local spreadsheet write, the
\* remote spreadsheet write, the confirmation reply and the two supervisor
\* notifications, every one of them is attempted and the handler ends with the
\* ledger entry for (today, E) recorded.
C16_SinkFailuresNonFatal ==
    (pc = "excel" /\ result = "pending")
        ~> ( /\ pc = "idle"
             /\ result = "accepted"
             /\ StepsTaken = <<"excel", "sheets", "confirm", "owner", "hr", "ledger">>
             /\ EntryExists(daily_log.log, today, D1) )

\* an accepted submission all of whose five sinks failed
C16_Witness ==
    /\ pc = "idle"
    /\ result = "accepted"
    /\ Len(effects) = 6
    /\ \A i \in 1..5 : effects[i][2] = FALSE
    /\ EntryExists(daily_log.log, today, D1)


\* C17: whenever no handler is in progress, the daily log on disk equals the
\* ledger in memory (the file itself while the ledger is not yet loaded).
C17_LedgerDurable ==
    pc = "idle" => Hydrate(daily_log, daily_log_file) = daily_log_file


\* an admin's /deadline with an HH:MM argument whose write succeeds
SuccessfulSetDeadline(v) ==
    \E user \in OwnerOrNobody :
        /\ ~NotAnAdmin(user)
        /\ deadline_command(user, <<v>>, TRUE)

\* C18: the deadline read by the classifier and the reports is the configured
\* default at first; a successful /deadline v makes it v; nothing else changes
\* it: not a denied, malformed or failed /deadline, not a /sethr, not a restart.
C18_DeadlineRoundTrip ==
    /\ get_deadline = SUBMISSION_DEADLINE
    /\ [][/\ \A args \in SettingDeadlineArgs \ {NoArgs} :
               (IsHHMM(args[1]) /\ SuccessfulSetDeadline(args[1]))
               => get_deadline' = args[1]
          /\ (~\E args \in SettingDeadlineArgs \ {NoArgs} :
                  IsHHMM(args[1]) /\ SuccessfulSetDeadline(args[1]))
               => get_deadline' = get_deadline
          /\ \A hour \in NoonOrBefore :
               excel_save_to_excel(hour, 0, TRUE)
               => (result' = "late"
                      <=> late_report_is_late([hour |-> hour, minute |-> 0],
                                              ParseInt(get_deadline[1]),
                                              ParseInt(get_deadline[2])))]_vars

\* after a restart that followed a /sethr, the deadline set earlier is read
C18_Witness ==
    /\ ev.type = "restart"
    /\ settings_file.hr_chat_id # ""
    /\ get_deadline = DeadlineText(9, 30)


\* C19: no submission handler runs its duplicate check while another is
\* between its own duplicate check and its ledger insert, and of the
\* submissions for one (E, D), with no entry cleared, at most one is accepted.
C19_OneHandlerAtATime ==
    /\ ~(pc # "idle" /\ other.pc # "idle")
    /\ \A k \in DOMAIN accepted : accepted[k] <= 1

\* the first message for (today, DEV-1) was accepted, with its remote write
\* and notifications attempted, and the second got the duplicate reply
C19_Witness ==
    /\ pc = "idle"
    /\ result = "accepted"
    /\ ev.args = <<d1>>
    /\ Len(effects) = 6
    /\ other.result = "duplicate"
    /\ other.emp_id = D1
    /\ other.today_str = today
    /\ accepted[<<today, D1>>] = 1


\* C20: the message sent to the originating chat when a leave is approved is
\* the one it would be for any other monthly leave count of the employee, and
\* it carries no deduction; the deduction is in the admin's message and in the
\* leave register.
C20_DeductionConfidential ==
    (ev.type = "leave_cb" /\ result = "leave_approved")
    => /\ \A n \in 0..(MonthLen + 1) :
             shown.group = GroupMessage(ev.args[2], StaffName(ev.args[2]),
                                        ev.args[3], ev.user, n)
       /\ shown.group.deduction = NoDeduction
       /\ shown.count > FreeLeaves
             => /\ shown.admin.amount > 0
                /\ shown.register.amount > 0

\* a fourth leave of the month approved: the admin sees a deduction of 500,
\* the originating chat gets the plain approval
C20_Witness ==
    /\ ev.type = "leave_cb"
    /\ result = "leave_approved"
    /\ shown.count = 4
    /\ shown.admin.amount = 500
    /\ shown.group.emp_id = D1
    /\ shown.group.admin_name = OWNER_CHAT_ID


\* C21: main run with an empty bot token gives up, and from then on, until the
\* process is started again, no message, command or callback is handled and
\* no state changes.
C21_NoTokenHalts ==
    [][/\ \A BOT_TOKEN \in BotTokens :
            (BOT_TOKEN = "" /\ main(BOT_TOKEN))
            => (pc' = "halted" /\ result' = "no_token")
       /\ (ev.type = "main" /\ ev.args = <<"">>)
            => \/ ProcessStart
               \/ UNCHANGED vars]_vars

\* main gave up for want of a token in a later run of the process, with the
\* ledger and the roster of an earlier run on disk
C21_Witness ==
    /\ pc = "halted"
    /\ ev.type = "main"
    /\ ev.args = <<"">>
    /\ result = "no_token"
    /\ daily_log_file # EmptyMap
    /\ staff_file.exists


\* C22: in an accepted submission the ledger entry for (date, E) is recorded
\* before the spreadsheet sinks are written, and the sinks are written before
\* the supervisor notifications are sent.
C22_LedgerSinksNotifyOrder ==
    (pc = "idle" /\ result = "accepted")
    => \A i \in DOMAIN effects, j \in DOMAIN effects :
          /\ (StepsTaken[i] = "ledger" /\ StepsTaken[j] \in {"excel", "sheets"})
                => i < j
          /\ (StepsTaken[i] \in {"excel", "sheets"} /\ StepsTaken[j] \in {"owner", "hr"})
                => i < j


\* C23: when the confirmation reply is sent the remote spreadsheet write has
\* completed, successfully or not, and when the remote write starts the local
\* spreadsheet write has completed.
C23_SheetsBeforeConfirm ==
    /\ \A j \in DOMAIN effects :
          StepsTaken[j] = "confirm"
          => \E i \in 1..(j - 1) : StepsTaken[i] = "sheets"
    /\ \A j \in DOMAIN effects :
          StepsTaken[j] = "sheets"
          => \E i \in 1..(j - 1) : StepsTaken[i] = "excel"
    /\ pc \in {"confirm", "notify_owner", "notify_hr", "record"}
          => \E i \in DOMAIN effects : StepsTaken[i] = "sheets"
    /\ pc \in {"sheets", "confirm"}
          => \E i \in DOMAIN effects : StepsTaken[i] = "excel"

\* the confirmation was sent after a remote write that failed
C23_Witness ==
    /\ pc = "notify_owner"
    /\ effects = <<<<"excel", TRUE>>, <<"sheets", FALSE>>, <<"confirm", TRUE>>>>


\* the days of a month on which an employee has a Leave Record
MonthDates(log, emp_id, month) ==
    {d \in 1..MonthLen : <<month, d>> \in DOMAIN log /\ emp_id \in DOMAIN log[<<month, d>>]}

\* C24: the count used on approval of a leave for (E, date) is the number of
\* days of the month of the leave date with a Leave Record for E once the
\* approval is saved: the days that had one before and the day just approved.
\* Records of other employees and other months do not count, and a day that
\* already had a record is counted once.
C24_MonthlyLeaveCount ==
    [][\A p \in prompts :
          LET before == MonthDates(leave_log_file, p.emp_id, p.date.month)
          IN /\ leave_callback(p, "leave_approve", TRUE, TRUE)
                => /\ shown'.count = Cardinality(before \cup {p.date.day})
                   /\ p.date.day \in before => shown'.count = Cardinality(before)
                   /\ MonthDates(leave_log_file', p.emp_id, p.date.month)
                          = before \cup {p.date.day}
             /\ leave_callback(p, "leave_approve", FALSE, TRUE)
                => shown'.count = Cardinality(before)]_vars

\* DEV-1's leave in the second month approved as the first of that month,
\* with two days of DEV-1 and two of another employee on record in the first
C24_Witness ==
    /\ ev.type = "leave_cb"
    /\ result = "leave_approved"
    /\ ev.args[2] = D1
    /\ ev.args[3].month = 2
    /\ shown.count = 1
    /\ Cardinality(MonthDates(leave_log_file, D1, 1)) = 2
    /\ Cardinality(MonthDates(leave_log_file, M1, 1)) = 2


ResolvedLeave(args) ==
    LET word == args[2].kind
        remaining == IF Len(args) > 2 THEN "rest" ELSE "Personal"
        on(ordinal) == DateToken(DateOfDay(ordinal).day, DateOfDay(ordinal).month, TRUE)
    IN IF word \in {"today", "Today", "TODAY"}
       THEN [date |-> on(today), reason |-> remaining]
       ELSE IF word \in {"tomorrow", "Tomorrow", "TOMORROW"}
       THEN [date |-> on(today + 1), reason |-> remaining]
       ELSE IF /\ word = "date"
               /\ args[2].date.day >= 1 /\ args[2].date.day <= MonthLen
               /\ args[2].date.month >= 1 /\ args[2].date.month <= 12
       THEN [date |-> args[2].date, reason |-> remaining]
       ELSE [date |-> on(today), reason |-> "text"]

\* C26: a leave request whose second argument is "today" in any letter case
\* is for today, "tomorrow" for the day after, a valid day-month-year token
\* for that date, each with the remaining text or "Personal" as the reason;
\* with any other second argument it is for today and the reason is the whole
\* text after the employee id.
C26_LeaveDateResolution ==
    [][\A args \in LeaveDateArgs :
          leave_command("x", args)
          => LET want == ResolvedLeave(args)
                 key == <<Upper(args[1]), want.date>>
             IN /\ result' = "leave_requested"
                /\ key \in DOMAIN pending_leaves'
                /\ pending_leaves'[key].date = want.date
                /\ pending_leaves'[key].reason = want.reason
                /\ \A p \in prompts' \ prompts : p.date = want.date]_vars

\* "TODAY" with a reason, on the second day: filed for the second day
C26_Witness ==
    /\ ev.type = "leave"
    /\ ev.args = <<d1, LeaveArg("TODAY", NoDate), "rest">>
    /\ today = 2
    /\ <<D1, DateToken(2, 1, TRUE)>> \in DOMAIN pending_leaves
    /\ pending_leaves[<<D1, DateToken(2, 1, TRUE)>>].reason = "rest"


\* C27: there is at most one pending leave request per employee id and
\* calendar date, however the date was written in the command.
C27_OnePendingPerDate ==
    \A k1 \in DOMAIN pending_leaves, k2 \in DOMAIN pending_leaves :
        ( /\ k1[1] = k2[1]
          /\ k1[2].day = k2[2].day
          /\ k1[2].month = k2[2].month )
        => k1 = k2


\* C28: the list that /absent replies with, and the one /remind sends, is the
\* set of roster employees that have neither a ledger entry nor a Leave Record
\* for today: nobody with either one and nobody outside the roster is listed.
C28_AbsenceList ==
    [][ ( /\ ev'.type \in {"absent", "remind"}
          /\ result' \in {"absent_list", "all_submitted", "reminder_sent"}
          /\ today' = today )
        => /\ report'.kind = ev'.type
           /\ report'.listed \subseteq DOMAIN STAFF_RECORDS'
           /\ \A emp_id \in DOMAIN STAFF_RECORDS' :
                 emp_id \in report'.listed
                 <=> /\ ~EntryExists(daily_log'.log, today', emp_id)
                     /\ ~EntryExists(leave_log_file',
                                     <<DateOfDay(today').month,
                                       DateOfDay(today').day>>,
                                     emp_id) ]_vars

\* on the second day DEV-1 is listed; MKT-1, on leave that day, is not
C28_Witness ==
    /\ ev.type = "absent"
    /\ result = "absent_list"
    /\ today = 2
    /\ M1 \in DOMAIN STAFF_RECORDS
    /\ EntryExists(leave_log_file, <<1, 2>>, M1)
    /\ EntryExists(daily_log.log, 1, D1)
    /\ report.listed = {D1}


C30_LedgerCarriesLateness ==
    (ev.type = "message" /\ result = "accepted")
    => LET entry == daily_log.log[today][ParseEmpId(ev.args[1])]
       IN /\ entry.dict
          /\ entry.time = strftime_IMp(ev.hour, ev.minute)
          /\ entry.late = ~is_on_time(entry.time)


\* C31: an /edit or /leave from a caller that is neither an owner nor the HR
\* contact creates no pending request and sends no approval prompt.
C31_RequestsRoleGated ==
    (ev.type \in {"edit", "leave"} /\ NotAnAdmin(ev.user))
    => /\ result \notin {"edit_requested", "leave_requested"}
       /\ \A p \in prompts : p.kind = ev.type => p.emp_id # Upper(ev.args[1])


\* C32: once an owner's /sethr has saved an HR contact, a restart leaves that
\* identity as the HR contact of the role checks and the notifications.
C32_HROverridePersists ==
    [][(ev'.type = "restart" /\ settings_file.hr_chat_id # "")
       => HR_CHAT_ID' = settings_file.hr_chat_id]_vars


\* the Sr No cells of a sheet, top to bottom
SrNos(ws) == SelectSeq(ws.rows, LAMBDA c : c >= 1)

\* C33: in every update sheet the Sr No cells read 1, 2, 3, ... from the first
\* data row down, whether the sheet was created with its header or was found
\* existing, empty or not.
C33_SrNoIncreasing ==
    \A name \in {"excel", "remote", "monthly"} :
        \A i \in 1..Len(SrNos(sheets[name])) : SrNos(sheets[name])[i] = i


\* a character of an upper-case alphanumeric token
TokenChar(c) == c # " " /\ c # "-" /\ c = UpperChar(c)

\* C34: every identifier of the roster is a non-empty token of upper-case
\* letters and digits, in memory and in staff.json.
C34_RosterIdsAreTokens ==
    \A emp_id \in DOMAIN STAFF_RECORDS \cup DOMAIN staff_file.data :
        /\ emp_id # <<>>
        /\ \A i \in 1..Len(emp_id) : TokenChar(emp_id[i])


\* the attempts to notify an endpoint made by the handler in progress or last
\* finished
Attempts(step) == {i \in DOMAIN effects : effects[i][1] = step}

C36_ApproveClearsRequestDateOnly ==
    [][\A p \in prompts, io \in BOOLEAN :
          ( /\ allow_callback(p, "allow_approve", io)
            /\ Get(allow_usage, <<today, p.emp_id>>, 0) = 0
            /\ EntryExists(Hydrate(daily_log, daily_log_file), today, p.emp_id) )
          => EntryExists(daily_log'.log, today, p.emp_id)]_vars


\* C37: /allow, /addstaff and /removestaff deny their caller exactly when
\* config.is_admin rejects it, so every configured owner and the HR contact
\* pass.
C37_OneAdminPredicate ==
    [][\A user \in Users :
          ( \/ \E args \in AllowArgs : allow_command(user, args, TRUE)
            \/ \E parts \in StaffParts : addstaff_command(user, parts, TRUE)
            \/ \E args \in RemoveArgs : removestaff_command(user, args, TRUE) )
          => (result' = "denied" <=> ~is_admin(user))]_vars


\* C38: a message of a registered employee who already has a ledger entry for
\* today is answered as a duplicate and nothing else happens: no sink write and
\* no notification is started, and the ledger, in memory and on disk, the
\* sheets and every other piece of state stay as they were.
C38_DuplicateHasNoEffect ==
    [][\A token \in MsgTokens, hour \in Hours :
          ( /\ MsgBegin(token, TRUE, hour, 0)
            /\ Upper(token) \in DOMAIN STAFF_RECORDS
            /\ EntryExists(Hydrate(daily_log, daily_log_file), today, Upper(token)) )
          => /\ result' = "duplicate"
             /\ pc' = "idle"
             /\ effects' = <<>>
             /\ daily_log'.log = Hydrate(daily_log, daily_log_file)
             /\ UNCHANGED <<daily_log_file, sheets, STAFF_RECORDS, staff_file,
                            HR_CHAT_ID, settings_file, leave_log_file,
                            pending_edits, pending_leaves, allow_usage, prompts,
                            today, cur, shown, accepted>>]_vars

\* a duplicate was rejected while the entry was on disk
C38_Witness ==
    /\ ev.type = "message"
    /\ result = "duplicate"
    /\ pc = "idle"
    /\ effects = <<>>
    /\ EntryExists(daily_log_file, today, Upper(ev.args[1]))


\* C39: the HR contact changes only by an owner's /sethr; a successful
\* reassignment makes its argument the HR contact of both role checks, the
\* former contact, not an owner, fails both, and the roster, the ledgers and
\* the deadline are left as they were.
C39_HRReassignmentTransfersRole ==
    [][/\ HR_CHAT_ID' # HR_CHAT_ID
          => /\ ev'.type = "sethr"
             /\ \E i \in DOMAIN OWNER_CHAT_IDS : OWNER_CHAT_IDS[i] = ev'.user
       /\ (ev'.type = "sethr" /\ result' = "hr_updated")
          => /\ HR_CHAT_ID' = ev'.args[1]
             /\ is_owner(ev'.args[1]) \/ ev'.args[1] = HR_CHAT_ID'
             /\ ev'.args[1] = OWNER_CHAT_ID \/ ev'.args[1] = HR_CHAT_ID'
             /\ (HR_CHAT_ID # ev'.args[1] /\ ~is_owner(HR_CHAT_ID))
                => /\ ~(is_owner(HR_CHAT_ID) \/ HR_CHAT_ID = HR_CHAT_ID')
                   /\ ~(HR_CHAT_ID = OWNER_CHAT_ID \/ HR_CHAT_ID = HR_CHAT_ID')
             /\ UNCHANGED <<STAFF_RECORDS, staff_file, daily_log, daily_log_file,
                            leave_log_file>>
             /\ get_deadline' = get_deadline]_vars

====
